---- MODULE Spec2Model ----
(***************************************************************************)
(* Verification model of the consensus / data-integrity core of lisk-sdk:  *)
(*   - the Merkle accumulator (elements/lisk-tree/src/merkle_tree.ts),     *)
(*   - the BFT API (framework/src/modules/bft/api.ts),                     *)
(*   - the commit pool and certificate utilities (node/consensus).         *)
(*                                                                         *)
(* Digests are modelled as collision-free terms: the digest of a leaf is   *)
(* <<"L", payload>>, the digest of a branch is <<"B", left, right>>, the   *)
(* reserved empty root is <<"E">>, and the empty buffer is <<>>.           *)
(***************************************************************************)
EXTENDS Integers, Sequences, FiniteSets, TLC

VARIABLES
    root,           \* MerkleTree._root
    width,          \* MerkleTree._width
    hashToBuffer,   \* MerkleTree._hashToBuffer: digest -> stored node value
    leaves,         \* ghost: the leaf payloads committed so far, in order
    digestTag,      \* the digests whose first byte equals LEAF_PREFIX
    treeRet,        \* outcome of the last accumulator operation
    bftVotes,       \* the BFTVotes record of the votes store (EMPTY_KEY)
    paramsStore,    \* the BFT parameter store: effective height -> BFTParameters
    chain,          \* block headers by height (chain.dataAccess), genesis first
    bftRet,         \* the BFT / commit pool call that has returned, if any
    nonGossipedCommits, \* CommitPool._nonGossipedCommits: height -> single commits
    gossipedCommits,    \* CommitPool._gossipedCommits: height -> single commits
    verifying,      \* the verifyAggregateCommit call suspended at an await, if any
    requestId,      \* BaseChannel._requestId
    rpcRequestIds,  \* IPCChannel._rpcRequestIds
    emitter,        \* IPCChannel._emitter: its listeners, in registration order
    subSocket,      \* the subscriptions of the channel's sub socket: event name -> count
    invocations,    \* the invoke calls made: request id -> send, timer and promise
    subscribed,     \* the <<event name, callback>> pairs the callers hold subscribed
    notified,       \* the callbacks scheduled by the last event received
    childProcesses, \* Controller._childProcesses: plugin name -> child process
    unloading,      \* the _unloadChildProcessPlugin calls: plugin name -> listeners, timer, promise
    cacheReady,     \* Cache.cacheReady
    client,         \* Cache.client: the redis client and its listeners
    logged          \* what the cache logged while the client's last event was handled

treeVars == <<root, width, hashToBuffer, leaves, digestTag, treeRet>>

bftVars == <<bftVotes, paramsStore, chain, bftRet>>

poolVars == <<nonGossipedCommits, gossipedCommits, verifying>>

channelVars == <<requestId, rpcRequestIds, emitter, subSocket, invocations, subscribed, notified>>

controllerVars == <<childProcesses, unloading>>

cacheVars == <<cacheReady, client, logged>>

hostVars == <<channelVars, controllerVars, cacheVars>>

vars == <<root, width, hashToBuffer, leaves, digestTag, treeRet,
          bftVotes, paramsStore, chain, bftRet,
          nonGossipedCommits, gossipedCommits, verifying,
          requestId, rpcRequestIds, emitter, subSocket, invocations, subscribed, notified,
          childProcesses, unloading, cacheReady, client, logged>>

(***************************************************************************)
(* Bounds of the model.                                                    *)
(***************************************************************************)
MaxLeafValue == 2       \* leaf payloads are 1..MaxLeafValue
MaxInitLeaves == 3      \* longest list handed to the constructor
MaxLeaves == 4          \* most leaves a tree holds (constructor + appends)
MaxBuildLeaves == 6     \* longest list handed to the constructor when only roots are compared
MaxHeight == 2          \* highest block height executed
MaxWeight == 2          \* BFT weights handed to setBFTParameters are 0..MaxWeight
MaxRequests == 2        \* most invoke calls made on a channel
MaxSubscriptions == 3   \* most subscribe calls made on a channel

LeafValues == 1..MaxLeafValue

\* The digest function fixes the first byte of every digest.  The model draws,
\* once, which of these digests begin with the LEAF_PREFIX byte (1 digest in
\* 256 does); every other digest begins with another byte.
TagCandidates == {<<"L", 1>>, <<"B", <<"L", 1>>, <<"L", 2>>>>}

RECURSIVE SeqsUpTo(_, _)
SeqsUpTo(S, n) ==
    IF n = 0 THEN {<<>>}
    ELSE LET shorter == SeqsUpTo(S, n - 1)
         IN  shorter \cup {Append(s, x) : s \in {t \in shorter : Len(t) = n - 1}, x \in S}

(***************************************************************************)
(* Merkle accumulator                                                      *)
(***************************************************************************)
LEAF_PREFIX == 0
BRANCH_PREFIX == 1
EMPTY_HASH == <<"E">>
EmptyBuffer == <<>>

LeafHash(v) == <<"L", v>>
BranchHash(l, r) == <<"B", l, r>>

\* Stored node values.  A leaf value is LEAF_PREFIX || payload; a branch value
\* is BRANCH_PREFIX || layerIndex (1 byte) || nodeIndex (8 bytes) || left || right.
LeafValue(v) == [prefix |-> LEAF_PREFIX, data |-> v]
BranchValue(layerIndex, nodeIndex, l, r) ==
    [prefix |-> BRANCH_PREFIX, layerIndex |-> layerIndex, nodeIndex |-> nodeIndex,
     left |-> l, right |-> r]

\* isLeaf applied to a stored value: its first byte is the leaf tag.
isLeafValue(value) == value.prefix = LEAF_PREFIX

\* isLeaf applied to a digest (append does this): true iff the first byte of
\* the digest happens to equal LEAF_PREFIX, which the digest function decides.
isLeafDigest(tags, h) == h \in tags

isAppendPath(dataLength, layer) ==
    IF layer < 1 THEN FALSE
    ELSE (dataLength \div (2 ^ (layer - 1))) % 2 = 1

RECURSIVE CeilLog2(_)
CeilLog2(n) == IF n <= 1 THEN 0 ELSE 1 + CeilLog2((n + 1) \div 2)

\* _getHeight: Math.ceil(Math.log2(width)) + 1
GetHeight(w) == CeilLog2(w) + 1

\* A 64-bit integer as its eight big-endian bytes (writeBigInt64BE), for the
\* non-negative values below 256 that _build produces, and its successor.
Int64Bytes(n) == <<0, 0, 0, 0, 0, 0, 0, n>>

RECURSIVE IncBytes(_, _)
IncBytes(bytes, i) ==
    IF i = 0 THEN bytes
    ELSE IF bytes[i] < 255 THEN [bytes EXCEPT ![i] = @ + 1]
    ELSE IncBytes([bytes EXCEPT ![i] = 0], i - 1)

PlusOne(bytes) == IncBytes(bytes, Len(bytes))

\* getNode: the record returned for a digest known to the arena `nodes`.
\* Payloads are shorter than NODE_HASH_SIZE, so the two slices of a leaf value
\* that is the root yield the empty buffer (left) and the whole value (right).
\* For a branch, readInt8(0) reads the prefix byte and readBigInt64BE(1) reads
\* the layer byte followed by the seven high bytes of the node index; the
\* node index is kept as its eight bytes.
NodeType(r, value, h) ==
    IF r = h THEN "root" ELSE IF isLeafValue(value) THEN "leaf" ELSE "branch"

NodeKnown(nodes, h) == h \in DOMAIN nodes

GetNode(nodes, r, h) ==
    LET value == nodes[h]
        type == NodeType(r, value, h)
    IN  [type |-> type,
         hash |-> h,
         value |-> value,
         layerIndex |-> IF type = "branch" THEN value.prefix ELSE 0,
         nodeIndex |-> IF type = "branch"
                       THEN <<value.layerIndex>> \o SubSeq(value.nodeIndex, 1, 7)
                       ELSE Int64Bytes(0),
         rightHash |-> IF type = "leaf" THEN EmptyBuffer
                       ELSE IF isLeafValue(value) THEN <<"V", value.data>>
                       ELSE value.right,
         leftHash |-> IF type = "leaf" THEN EmptyBuffer
                      ELSE IF isLeafValue(value) THEN EmptyBuffer
                      ELSE value.left]

\* _generateNode: the digest and the value it stores in the arena.
GenerateNode(l, r, layerIndex, nodeIndex) ==
    [hash |-> BranchHash(l, r), value |-> BranchValue(layerIndex, nodeIndex, l, r)]

Store(nodes, h, value) == [k \in DOMAIN nodes \cup {h} |-> IF k = h THEN value ELSE nodes[k]]

(***************************************************************************)
(* _build: pairs the nodes of each layer, carrying one orphan forward.     *)
(***************************************************************************)
RECURSIVE MakePairs(_, _)
MakePairs(layer, i) ==
    IF i > Len(layer) - 1 THEN <<>>
    ELSE <<<<layer[i], layer[i + 1]>>>> \o MakePairs(layer, i + 2)

\* Variant: a layer of odd size pairs its last node with itself and forgets
\* the orphan carried from below.
BuildLayer_OrphanForgotten(layer, orphan, hasOrphan, currentLayer, nodes) ==
    LET odd == Len(layer) % 2 = 1
        base == MakePairs(layer, 1)
        pairs == IF odd /\ hasOrphan
                 THEN Append(base, <<layer[Len(layer)], layer[Len(layer)]>>)
                 ELSE base
        newHasOrphan == IF odd THEN ~hasOrphan ELSE hasOrphan
        newOrphan == IF odd /\ ~hasOrphan THEN layer[Len(layer)] ELSE orphan
        parents == [i \in 1..Len(pairs) |-> BranchHash(pairs[i][1], pairs[i][2])]
        stored == [k \in DOMAIN nodes \cup {parents[i] : i \in 1..Len(pairs)} |->
                     IF \E i \in 1..Len(pairs) : parents[i] = k
                     THEN LET last == CHOOSE i \in 1..Len(pairs) : parents[i] = k
                          IN  BranchValue(currentLayer, Int64Bytes(last - 1), pairs[last][1], pairs[last][2])
                     ELSE nodes[k]]
    IN  [layer |-> parents, orphan |-> newOrphan, hasOrphan |-> newHasOrphan, nodes |-> stored]

\* One iteration of the while loop: returns the parent layer, the orphan and
\* the arena after the parents have been stored.
BuildLayer(layer, orphan, hasOrphan, currentLayer, nodes) ==
    LET odd == Len(layer) % 2 = 1
        base == MakePairs(layer, 1)
        pairs == IF odd /\ hasOrphan
                 THEN Append(base, <<layer[Len(layer)], orphan>>)
                 ELSE base
        newHasOrphan == IF odd THEN ~hasOrphan ELSE hasOrphan
        newOrphan == IF odd /\ ~hasOrphan THEN layer[Len(layer)] ELSE orphan
        parents == [i \in 1..Len(pairs) |-> BranchHash(pairs[i][1], pairs[i][2])]
        stored == [k \in DOMAIN nodes \cup {parents[i] : i \in 1..Len(pairs)} |->
                     IF \E i \in 1..Len(pairs) : parents[i] = k
                     THEN LET last == CHOOSE i \in 1..Len(pairs) :
                                         /\ parents[i] = k
                                         /\ \A j \in 1..Len(pairs) : parents[j] = k => j <= i
                          IN  BranchValue(currentLayer, Int64Bytes(last - 1), pairs[last][1], pairs[last][2])
                     ELSE nodes[k]]
    IN  [layer |-> parents, orphan |-> newOrphan, hasOrphan |-> newHasOrphan, nodes |-> stored]

RECURSIVE BuildLoop(_, _, _, _, _)
BuildLoop(layer, orphan, hasOrphan, currentLayer, nodes) ==
    IF Len(layer) > 1 \/ hasOrphan
    THEN LET step == BuildLayer(layer, orphan, hasOrphan, currentLayer, nodes)
         IN  BuildLoop(step.layer, step.orphan, step.hasOrphan, currentLayer + 1, step.nodes)
    ELSE [root |-> layer[1], nodes |-> nodes]

LeafNodes(initValues) ==
    [k \in {LeafHash(initValues[i]) : i \in 1..Len(initValues)} |-> LeafValue(k[2])]

Build(initValues) ==
    BuildLoop([i \in 1..Len(initValues) |-> LeafHash(initValues[i])],
              EmptyBuffer, FALSE, 0, LeafNodes(initValues))

\* The root of new MerkleTree(initValues).
RootOf(initValues) == IF Len(initValues) = 0 THEN EMPTY_HASH ELSE Build(initValues).root

(***************************************************************************)
(* append                                                                  *)
(***************************************************************************)
\* A Buffer object is truthy whatever its length.
BufferTruthy(b) == TRUE

\* The for loop of append.  w is _width after _generateLeaf incremented it.
RECURSIVE AppendLoop(_, _, _, _, _, _, _, _)
AppendLoop(nodes, r, w, treeHeight, i, currentNode, path, tags) ==
    IF i >= treeHeight THEN [threw |-> FALSE, path |-> path]
    ELSE
      LET p1 == IF isAppendPath(w - 1, treeHeight - i)
                THEN Append(path, currentNode) ELSE path
          pushLeft == isAppendPath(w - 1, treeHeight - i - 1)
      IN  IF isLeafDigest(tags, currentNode.hash) THEN [threw |-> FALSE, path |-> p1]
          ELSE IF pushLeft /\ ~NodeKnown(nodes, currentNode.leftHash)
          THEN [threw |-> TRUE, path |-> p1]
          ELSE
            LET p2 == IF pushLeft
                      THEN Append(p1, GetNode(nodes, r, currentNode.leftHash)) ELSE p1
            IN  IF BufferTruthy(currentNode.rightHash) THEN [threw |-> FALSE, path |-> p2]
                ELSE IF \/ isLeafDigest(tags, currentNode.rightHash)
                        \/ currentNode.rightHash = EmptyBuffer
                THEN [threw |-> FALSE, path |-> p2]
                ELSE IF ~NodeKnown(nodes, currentNode.rightHash)
                THEN [threw |-> TRUE, path |-> p2]
                ELSE AppendLoop(nodes, r, w, treeHeight, i + 1,
                                GetNode(nodes, r, currentNode.rightHash), p2, tags)

\* The while loop of append: re-pairs the collected nodes right to left.
RECURSIVE MergePath(_, _, _)
MergePath(path, nodes, r) ==
    IF Len(path) <= 1 THEN [path |-> path, nodes |-> nodes]
    ELSE
      LET rightNodeInfo == path[Len(path)]
          leftNodeInfo == path[Len(path) - 1]
          newNode == GenerateNode(leftNodeInfo.hash, rightNodeInfo.hash,
                                  leftNodeInfo.layerIndex + 1, PlusOne(leftNodeInfo.nodeIndex))
          stored == Store(nodes, newNode.hash, newNode.value)
      IN  MergePath(Append(SubSeq(path, 1, Len(path) - 2), GetNode(stored, r, newNode.hash)),
                    stored, r)

\* append(value) on the tree (r, w, nodes): the tree it leaves and what the
\* call does (returns the new root, or throws after _generateLeaf has run).
AppendResult(r, w, nodes, value, tags) ==
    LET nodes1 == Store(nodes, LeafHash(value), LeafValue(value))
        w1 == w + 1
        failed == [threw |-> TRUE, root |-> r, width |-> w1, nodes |-> nodes1]
    IN  IF ~NodeKnown(nodes1, r) THEN failed
        ELSE
          LET loop == AppendLoop(nodes1, r, w1, GetHeight(w1), 0,
                                 GetNode(nodes1, r, r), <<>>, tags)
          IN  IF loop.threw THEN failed
              ELSE
                LET merged == MergePath(Append(loop.path, GetNode(nodes1, r, LeafHash(value))),
                                        nodes1, r)
                IN  [threw |-> FALSE, root |-> merged.path[1].hash, width |-> w1,
                     nodes |-> merged.nodes]


(***************************************************************************)
(* Accumulator operations                                                  *)
(***************************************************************************)
TreeStart ==
    /\ root = EMPTY_HASH
    /\ width = 0
    /\ hashToBuffer = <<>>
    /\ leaves = <<>>
    /\ digestTag \in SUBSET TagCandidates
    /\ treeRet = [op |-> "new", outcome |-> "returned", value |-> EMPTY_HASH]

\* new MerkleTree(initValues)
TreeNew(initValues) ==
    /\ width' = IF Len(initValues) = 0 THEN 0 ELSE Len(initValues) + Len(initValues)
    /\ root' = RootOf(initValues)
    /\ hashToBuffer' = IF Len(initValues) = 0 THEN <<>> ELSE Build(initValues).nodes
    /\ leaves' = initValues
    /\ treeRet' = [op |-> "new", outcome |-> "returned", value |-> RootOf(initValues)]
    /\ UNCHANGED <<digestTag, bftVars, poolVars, hostVars>>

\* append(value)
TreeAppend(value) ==
    /\ Len(leaves) < MaxLeaves
    /\ width < MaxLeaves + MaxLeaves
    /\ LET res == AppendResult(root, width, hashToBuffer, value, digestTag)
       IN  /\ root' = res.root
           /\ width' = res.width
           /\ hashToBuffer' = res.nodes
           /\ UNCHANGED <<digestTag, bftVars, poolVars, hostVars>>
           /\ leaves' = IF res.threw THEN leaves ELSE Append(leaves, value)
           /\ treeRet' = IF res.threw
                         THEN [op |-> "append", outcome |-> "threw", value |-> value]
                         ELSE [op |-> "append", outcome |-> "returned", value |-> res.root]

\* Variant: clear() that resets the width and the root but keeps the arena.
TreeClear_KeepsArena ==
    /\ width' = 0
    /\ hashToBuffer' = hashToBuffer
    /\ root' = EMPTY_HASH
    /\ leaves' = <<>>
    /\ treeRet' = [op |-> "clear", outcome |-> "returned", value |-> EMPTY_HASH]
    /\ UNCHANGED <<digestTag, bftVars, poolVars, hostVars>>

\* clear()
TreeClear ==
    /\ width' = 0
    /\ hashToBuffer' = <<>>
    /\ root' = EMPTY_HASH
    /\ leaves' = <<>>
    /\ treeRet' = [op |-> "clear", outcome |-> "returned", value |-> EMPTY_HASH]
    /\ UNCHANGED <<digestTag, bftVars, poolVars, hostVars>>

\* Variant: getNode answers an unknown hash with an empty leaf record.
TreeGetNode_NeverThrows(hash) ==
    /\ treeRet' = [op |-> "getNode", outcome |-> "returned", hash |-> hash,
                   node |-> IF NodeKnown(hashToBuffer, hash)
                            THEN GetNode(hashToBuffer, root, hash)
                            ELSE [type |-> "leaf", hash |-> hash]]
    /\ UNCHANGED <<root, width, hashToBuffer, leaves, digestTag, bftVars, poolVars, hostVars>>

\* getNode(hash)
TreeGetNode(hash) ==
    /\ treeRet' = IF ~NodeKnown(hashToBuffer, hash)
                  THEN [op |-> "getNode", outcome |-> "threw", hash |-> hash]
                  ELSE [op |-> "getNode", outcome |-> "returned", hash |-> hash,
                        node |-> GetNode(hashToBuffer, root, hash)]
    /\ UNCHANGED <<root, width, hashToBuffer, leaves, digestTag, bftVars, poolVars, hostVars>>

(***************************************************************************)
(* BFT module: data                                                        *)
(***************************************************************************)
Addresses == {1, 2, 3}

\* The validators module's accounts: address -> BLS key.  Address 3 has no
\* account, so getValidatorAccount fails for it.  The key order is the reverse
\* of the address order.
ValidatorAccounts == (1 :> 12) @@ (2 :> 11)

HasValidatorAccount(address) == address \in DOMAIN ValidatorAccounts
GetValidatorAccount(address) == [blsKey |-> ValidatorAccounts[address]]

\* BFTAPI._batchSize, set by init(batchSize)
BatchSize == 2

Validator(address, bftWeight) == [address |-> address, bftWeight |-> bftWeight]

\* Array.prototype.sort with a comparator on one field: a stable ascending sort.
RECURSIVE InsertByField(_, _, _)
InsertByField(sorted, x, field) ==
    IF Len(sorted) = 0 THEN <<x>>
    ELSE IF sorted[Len(sorted)][field] <= x[field] THEN Append(sorted, x)
    ELSE Append(InsertByField(SubSeq(sorted, 1, Len(sorted) - 1), x, field), sorted[Len(sorted)])

RECURSIVE SortByField(_, _)
SortByField(list, field) ==
    IF Len(list) = 0 THEN <<>>
    ELSE InsertByField(SortByField(SubSeq(list, 1, Len(list) - 1), field), list[Len(list)], field)

sortValidatorsByAddress(validators) == SortByField(validators, "address")
sortValidatorsByBLSKey(validators) == SortByField(validators, "blsKey")

RECURSIVE SumWeights(_, _)
SumWeights(list, field) ==
    IF Len(list) = 0 THEN 0 ELSE list[1][field] + SumWeights(Tail(list), field)

\* hash(codec.encode(schema, value)): the codec is injective, the digest
\* collision-free.
Hash(value) == <<"H", value>>

(***************************************************************************)
(* BFT API: queries                                                        *)
(***************************************************************************)
\* getBFTHeights
GetBFTHeights(votes) ==
    [maxHeightPrevoted |-> votes.maxHeightPrevoted,
     maxHeightPrecommitted |-> votes.maxHeightPrecommitted,
     maxHeightCertified |-> votes.maxHeightCertified]

\* paramsStore.iterate({limit: 1, start, end}): the keys in [start, end],
\* ascending, cut to one.
IterateFirst(store, start, end) ==
    LET keys == {k \in DOMAIN store : start <= k /\ k <= end}
    IN  IF keys = {} THEN <<>>
        ELSE <<CHOOSE k \in keys : \A j \in keys : k <= j>>

\* MAX_UINT32 is 2^32 - 1 in the code; the largest integer of the checker
\* stands for it (it only has to exceed every height of the model).
MAX_UINT32 == 2147483647

\* Variant: the iteration starts at the height itself.
GetNextHeightBFTParameters_Inclusive(store, height) ==
    LET results == IterateFirst(store, height, MAX_UINT32)
    IN  IF Len(results) # 1 THEN [found |-> FALSE, value |-> 0]
        ELSE [found |-> TRUE, value |-> results[1]]

\* getNextHeightBFTParameters: found = FALSE stands for BFTParameterNotFoundError.
GetNextHeightBFTParameters(store, height) ==
    LET results == IterateFirst(store, height + 1, MAX_UINT32)
    IN  IF Len(results) # 1 THEN [found |-> FALSE, value |-> 0]
        ELSE [found |-> TRUE, value |-> results[1]]

\* Variant: only entries strictly below the height are considered.
BFTParametersKey_Below(store, height) ==
    LET keys == {k \in DOMAIN store : k < height}
    IN  IF keys = {} THEN [found |-> FALSE, value |-> 0]
        ELSE [found |-> TRUE, value |-> CHOOSE k \in keys : \A j \in keys : j <= k]

\* getBFTParameters (bft_params): the entry with the greatest effective height
\* at or below `height`; found = FALSE stands for BFTParameterNotFoundError.
BFTParametersKey(store, height) ==
    LET keys == {k \in DOMAIN store : k <= height}
    IN  IF keys = {} THEN [found |-> FALSE, value |-> 0]
        ELSE [found |-> TRUE, value |-> CHOOSE k \in keys : \A j \in keys : j <= k]

GetBFTParameters(store, height) ==
    LET key == BFTParametersKey(store, height)
    IN  IF key.found THEN [found |-> TRUE, value |-> store[key.value]]
        ELSE [found |-> FALSE, value |-> 0]

\* Variant: the validators of the entry effective at the next height.
GetCurrentValidators_NextHeight(votes, store) ==
    IF Len(votes.blockBFTInfos) = 0
    THEN [outcome |-> "threw", error |-> "There are no BFT info stored.", value |-> <<>>]
    ELSE
      LET params == GetBFTParameters(store, votes.blockBFTInfos[1].height + 1)
      IN  IF ~params.found
          THEN [outcome |-> "threw", error |-> "BFTParameterNotFoundError", value |-> <<>>]
          ELSE [outcome |-> "returned", error |-> "none", value |-> params.value.validators]

\* getCurrentValidators
GetCurrentValidators(votes, store) ==
    IF Len(votes.blockBFTInfos) = 0
    THEN [outcome |-> "threw", error |-> "There are no BFT info stored.", value |-> <<>>]
    ELSE
      LET currentHeight == votes.blockBFTInfos[1].height
          params == GetBFTParameters(store, currentHeight)
      IN  IF ~params.found
          THEN [outcome |-> "threw", error |-> "BFTParameterNotFoundError", value |-> <<>>]
          ELSE [outcome |-> "returned", error |-> "none", value |-> params.value.validators]

(***************************************************************************)
(* BFT API: header queries                                                 *)
(***************************************************************************)
\* A header as the BFT module sees it.  The id is the digest of the header,
\* so two headers have the same id exactly when they have the same content.
BFTHeader(generatorAddress, height, maxHeightGenerated, maxHeightPrevoted) ==
    [id |-> <<"block", generatorAddress, height, maxHeightGenerated, maxHeightPrevoted>>,
     generatorAddress |-> generatorAddress,
     height |-> height,
     maxHeightGenerated |-> maxHeightGenerated,
     maxHeightPrevoted |-> maxHeightPrevoted]

\* Clause (b) of the contradiction rule for headers a and b: a's
\* previously-forged height is at or above b's height while a's height is at
\* or above b's previously-prevoted height.
CouldNotHaveFollowed(a, b) ==
    /\ a.maxHeightGenerated >= b.height
    /\ a.height >= b.maxHeightPrevoted

\* areDistinctHeadersContradicting (utils): two headers of the same generator
\* contradict iff they declare the same height or clause (b) holds of the pair.
areDistinctHeadersContradicting(b1, b2) ==
    /\ b1.generatorAddress = b2.generatorAddress
    /\ \/ b1.height = b2.height
       \/ CouldNotHaveFollowed(b1, b2)
       \/ CouldNotHaveFollowed(b2, b1)

\* Variant: the ids are not compared.
AreHeadersContradicting_NoIdCheck(bftHeader1, bftHeader2) ==
    areDistinctHeadersContradicting(bftHeader1, bftHeader2)

\* areHeadersContradicting
AreHeadersContradicting(bftHeader1, bftHeader2) ==
    IF bftHeader1.id = bftHeader2.id THEN FALSE
    ELSE areDistinctHeadersContradicting(bftHeader1, bftHeader2)

\* The for loop of isHeaderContradictingChain: the index of the first stored
\* block info of the header's generator, or 0.
FirstOfGenerator(blockBFTInfos, generatorAddress) ==
    LET matches == {i \in 1..Len(blockBFTInfos) :
                       blockBFTInfos[i].generatorAddress = generatorAddress}
    IN  IF matches = {} THEN 0 ELSE CHOOSE i \in matches : \A j \in matches : i <= j

\* Variant: every stored block info of the generator is compared.
IsHeaderContradictingChain_AnyMatch(votes, header) ==
    \E i \in 1..Len(votes.blockBFTInfos) :
        /\ votes.blockBFTInfos[i].generatorAddress = header.generatorAddress
        /\ areDistinctHeadersContradicting(votes.blockBFTInfos[i], header)

\* isHeaderContradictingChain
IsHeaderContradictingChain(votes, header) ==
    LET first == FirstOfGenerator(votes.blockBFTInfos, header.generatorAddress)
    IN  IF first = 0 THEN FALSE
        ELSE areDistinctHeadersContradicting(votes.blockBFTInfos[first], header)

\* impliesMaximalPrevotes.  With no block info stored, lastHeader is
\* undefined and reading its height throws a TypeError.
ImpliesMaximalPrevotes(votes, header) ==
    IF Len(votes.blockBFTInfos) = 0
    THEN [outcome |-> "threw", value |-> FALSE]
    ELSE
      LET lastHeader == votes.blockBFTInfos[1]
          previousHeight == header.maxHeightGenerated
          offset == lastHeader.height - previousHeight
          returned(b) == [outcome |-> "returned", value |-> b]
      IN  IF header.height # lastHeader.height + 1 THEN returned(FALSE)
          ELSE IF previousHeight >= header.height THEN returned(FALSE)
          ELSE IF offset >= Len(votes.blockBFTInfos) THEN returned(TRUE)
          ELSE IF votes.blockBFTInfos[offset + 1].generatorAddress # header.generatorAddress
          THEN returned(FALSE)
          ELSE returned(TRUE)

(***************************************************************************)
(* BFT API: setBFTParameters                                               *)
(***************************************************************************)
\* The weight loop: the index of the first validator with bftWeight <= 0, or 0.
FirstBadWeight(validators) ==
    LET bad == {i \in 1..Len(validators) : validators[i].bftWeight <= 0}
    IN  IF bad = {} THEN 0 ELSE CHOOSE i \in bad : \A j \in bad : i <= j

AggregateBFTWeight(validators) == SumWeights(validators, "bftWeight")

\* Variant: the lower bound is a third of the weight, not a third plus one.
ThresholdInvalid_ThirdAccepted(aggregateBFTWeight, threshold) ==
    \/ aggregateBFTWeight \div 3 > threshold
    \/ threshold > aggregateBFTWeight

\* aggregateBFTWeight / 3 + 1 > threshold || threshold > aggregateBFTWeight
ThresholdInvalid(aggregateBFTWeight, threshold) ==
    \/ (aggregateBFTWeight \div 3) + 1 > threshold
    \/ threshold > aggregateBFTWeight

\* _computeValidatorsHash: fails when an account lookup fails.
AllAccountsKnown(validators) ==
    \A i \in 1..Len(validators) : HasValidatorAccount(validators[i].address)

\* Variant: the hash input keeps the order of the list handed in.
ComputeValidatorsHash_InputOrder(validators, certificateThreshold) ==
    Hash([activeValidators |->
              [i \in 1..Len(validators) |->
                  [blsKey |-> GetValidatorAccount(validators[i].address).blsKey,
                   bftWeight |-> validators[i].bftWeight]],
          certificateThreshold |-> certificateThreshold])

ComputeValidatorsHash(validators, certificateThreshold) ==
    LET activeValidators ==
            [i \in 1..Len(validators) |->
                [blsKey |-> GetValidatorAccount(validators[i].address).blsKey,
                 bftWeight |-> validators[i].bftWeight]]
    IN  Hash([activeValidators |-> sortValidatorsByBLSKey(activeValidators),
              certificateThreshold |-> certificateThreshold])

\* The bftParams object that is stored.
BFTParams(precommitThreshold, certificateThreshold, validators) ==
    [prevoteThreshold |-> ((2 * AggregateBFTWeight(validators)) \div 3) + 1,
     precommitThreshold |-> precommitThreshold,
     certificateThreshold |-> certificateThreshold,
     validators |-> sortValidatorsByAddress(validators),
     validatorsHash |-> ComputeValidatorsHash(validators, certificateThreshold)]

\* Variant: the entry is written at the height of the latest block.
NextHeight_Latest(votes) ==
    IF Len(votes.blockBFTInfos) > 0
    THEN votes.blockBFTInfos[1].height
    ELSE votes.maxHeightPrevoted

\* The effective height of the entry being written.
NextHeight(votes) ==
    IF Len(votes.blockBFTInfos) > 0
    THEN votes.blockBFTInfos[1].height + 1
    ELSE votes.maxHeightPrevoted

\* Variant: every validator of the new list starts afresh.
NextActiveValidator_AlwaysNew(votes, address, nextHeight) ==
    [address |-> address,
     minActiveHeight |-> nextHeight,
     largestHeightPrecommit |-> nextHeight - 1]

\* The vote info of one validator of the new list.
NextActiveValidator(votes, address, nextHeight) ==
    LET existing == {i \in 1..Len(votes.activeValidatorsVoteInfo) :
                        votes.activeValidatorsVoteInfo[i].address = address}
    IN  IF existing # {}
        THEN votes.activeValidatorsVoteInfo[CHOOSE i \in existing : \A j \in existing : i <= j]
        ELSE [address |-> address,
              minActiveHeight |-> nextHeight,
              largestHeightPrecommit |-> nextHeight - 1]

\* Variant: the record-level precommit height is reset like that of a new
\* validator.
NextBFTVotes_ResetPrecommitted(votes, validators, nextHeight) ==
    [votes EXCEPT !.activeValidatorsVoteInfo =
        sortValidatorsByAddress(
            [i \in 1..Len(validators) |->
                NextActiveValidator(votes, validators[i].address, nextHeight)]),
            !.maxHeightPrecommitted = nextHeight - 1]

\* The votes record that is written back.
NextBFTVotes(votes, validators, nextHeight) ==
    [votes EXCEPT !.activeValidatorsVoteInfo =
        sortValidatorsByAddress(
            [i \in 1..Len(validators) |->
                NextActiveValidator(votes, validators[i].address, nextHeight)])]

\* The error setBFTParameters throws, or "none".
SetBFTParametersError(precommitThreshold, certificateThreshold, validators) ==
    IF Len(validators) > BatchSize THEN "Invalid validators size"
    ELSE IF FirstBadWeight(validators) # 0 THEN "Invalid BFT weight"
    ELSE IF ThresholdInvalid(AggregateBFTWeight(validators), precommitThreshold)
    THEN "Invalid precommitThreshold input"
    ELSE IF ThresholdInvalid(AggregateBFTWeight(validators), certificateThreshold)
    THEN "Invalid certificateThreshold input"
    ELSE IF ~AllAccountsKnown(validators) THEN "getValidatorAccount failed"
    ELSE "none"

\* Variant: the votes record is rewritten before the thresholds and the
\* accounts are checked.
SetBFTParametersResult_VotesFirst(votes, store, precommitThreshold, certificateThreshold, validators) ==
    LET error == SetBFTParametersError(precommitThreshold, certificateThreshold, validators)
        nextHeight == NextHeight(votes)
        written == NextBFTVotes(votes, sortValidatorsByAddress(validators), nextHeight)
    IN  IF error \in {"Invalid validators size", "Invalid BFT weight"}
        THEN [error |-> error, paramsStore |-> store, bftVotes |-> votes]
        ELSE IF error # "none"
        THEN [error |-> error, paramsStore |-> store, bftVotes |-> written]
        ELSE [error |-> "none",
              paramsStore |-> Store(store, nextHeight,
                                    BFTParams(precommitThreshold, certificateThreshold, validators)),
              bftVotes |-> written]

\* Variant: the parameters store is replaced by the new entry alone.
SetBFTParametersResult_SingleEntry(votes, store, precommitThreshold, certificateThreshold, validators) ==
    LET error == SetBFTParametersError(precommitThreshold, certificateThreshold, validators)
    IN  IF error # "none"
        THEN [error |-> error, paramsStore |-> store, bftVotes |-> votes]
        ELSE
          LET sorted == sortValidatorsByAddress(validators)
              nextHeight == NextHeight(votes)
              bftParams == BFTParams(precommitThreshold, certificateThreshold, validators)
          IN  [error |-> "none",
               paramsStore |-> Store(<<>>, nextHeight, bftParams),
               bftVotes |-> NextBFTVotes(votes, sorted, nextHeight)]

\* setBFTParameters as a whole: the error (or "none") and the two stores as
\* the call leaves them.
SetBFTParametersResult(votes, store, precommitThreshold, certificateThreshold, validators) ==
    LET error == SetBFTParametersError(precommitThreshold, certificateThreshold, validators)
    IN  IF error # "none"
        THEN [error |-> error, paramsStore |-> store, bftVotes |-> votes]
        ELSE
          LET sorted == sortValidatorsByAddress(validators)
              nextHeight == NextHeight(votes)
              bftParams == BFTParams(precommitThreshold, certificateThreshold, validators)
          IN  [error |-> "none",
               paramsStore |-> Store(store, nextHeight, bftParams),
               bftVotes |-> NextBFTVotes(votes, sorted, nextHeight)]

(***************************************************************************)
(* Certificates and the weighted aggregate signature                       *)
(***************************************************************************)
MESSAGE_TAG_CERTIFICATE == "LSK_CE_"
NetworkIdentifier == "net"

\* An optional field is <<>> when absent (undefined) and <<v>> when present.
Undefined == <<>>
Some(v) == <<v>>
Defined(x) == Len(x) = 1
ValueOf(x) == x[1]

\* Variant: only the state root is required.
ComputeCertificateFromBlockHeader_StateRootOnly(blockHeader) ==
    IF ~Defined(blockHeader.stateRoot) THEN [ok |-> FALSE, value |-> "stateRoot"]
    ELSE [ok |-> TRUE,
          value |-> [blockID |-> blockHeader.id,
                     height |-> blockHeader.height,
                     stateRoot |-> blockHeader.stateRoot,
                     timestamp |-> blockHeader.timestamp,
                     validatorsHash |-> blockHeader.validatorsHash,
                     aggregationBits |-> Undefined,
                     signature |-> Undefined]]

\* computeCertificateFromBlockHeader; ok = FALSE stands for the thrown error.
\* The certificate it returns has neither aggregationBits nor signature.

ComputeCertificateFromBlockHeader(blockHeader) ==
    IF ~Defined(blockHeader.stateRoot) THEN [ok |-> FALSE, value |-> "stateRoot"]
    ELSE IF ~Defined(blockHeader.validatorsHash) THEN [ok |-> FALSE, value |-> "validatorsHash"]
    ELSE [ok |-> TRUE,
          value |-> [blockID |-> blockHeader.id,
                     height |-> blockHeader.height,
                     stateRoot |-> blockHeader.stateRoot,
                     timestamp |-> blockHeader.timestamp,
                     validatorsHash |-> blockHeader.validatorsHash,
                     aggregationBits |-> Undefined,
                     signature |-> Undefined]]

\* Variant: the bitmap is encoded into the signed message as well.
CertificateMessage_WithBits(certificate) ==
    [blockID |-> certificate.blockID,
     height |-> certificate.height,
     timestamp |-> certificate.timestamp,
     stateRoot |-> certificate.stateRoot,
     validatorsHash |-> certificate.validatorsHash,
     aggregationBits |-> certificate.aggregationBits]

\* codec.encode(certificateSchema, {...}): the five signed fields.
CertificateMessage(certificate) ==
    [blockID |-> certificate.blockID,
     height |-> certificate.height,
     timestamp |-> certificate.timestamp,
     stateRoot |-> certificate.stateRoot,
     validatorsHash |-> certificate.validatorsHash]

\* What a signature signs: the message under its tag and network identifier.
TaggedMessage(tag, networkIdentifier, message) ==
    [tag |-> tag, networkIdentifier |-> networkIdentifier, message |-> message]

\* verifyWeightedAggSig (lisk-cryptography): the keys selected by the bitmap
\* must reach the threshold in weight and be exactly the signers of the
\* tagged message.  A signature is the empty buffer or <<signers, message>>.
VerifyWeightedAggSig(keysList, aggregationBits, signature, tag, networkIdentifier, message, weights, threshold) ==
    LET selected == {i \in 1..Len(keysList) :
                        i <= Len(aggregationBits) /\ aggregationBits[i] = 1}
        weightSum == SumWeights([i \in 1..Len(keysList) |->
                                    [w |-> IF i \in selected THEN weights[i] ELSE 0]], "w")
    IN  /\ weightSum >= threshold
        /\ Len(signature) # 0
        /\ selected # {}
        /\ signature[2] = TaggedMessage(tag, networkIdentifier, message)
        /\ signature[1] = {keysList[i] : i \in selected}

\* verifyAggregateCertificateSignature.  An attached Buffer, even an empty
\* one, is truthy.
VerifyAggregateCertificateSignature(keysList, weights, threshold, networkIdentifier, certificate) ==
    IF ~Defined(certificate.aggregationBits) \/ ~Defined(certificate.signature) THEN FALSE
    ELSE VerifyWeightedAggSig(keysList, ValueOf(certificate.aggregationBits),
                              ValueOf(certificate.signature),
                              MESSAGE_TAG_CERTIFICATE, networkIdentifier,
                              CertificateMessage(certificate), weights, threshold)

\* What verifyAggregateCertificateSignature hands to verifyWeightedAggSig:
\* nothing when it returns before the call, else the bitmap, the signature,
\* the tag and the encoded message.
WeightedAggSigArguments(networkIdentifier, certificate) ==
    IF ~Defined(certificate.aggregationBits) \/ ~Defined(certificate.signature) THEN <<>>
    ELSE <<[aggregationBits |-> ValueOf(certificate.aggregationBits),
            signature |-> ValueOf(certificate.signature),
            tag |-> MESSAGE_TAG_CERTIFICATE,
            networkIdentifier |-> networkIdentifier,
            message |-> CertificateMessage(certificate)]>>

\* Variant: the pairs are handed on in the order of the stored list.
GetWeightsAndValidatorKeys_Unsorted(validatorKeysWithWeights) ==
    [weights |-> [i \in 1..Len(validatorKeysWithWeights) |-> validatorKeysWithWeights[i].weight],
     validatorKeys |-> [i \in 1..Len(validatorKeysWithWeights) |-> validatorKeysWithWeights[i].blsKey]]

\* Variant: the keys are sorted while the weights stay in the order given.
GetSortedWeightsAndValidatorKeys_WeightsInPlace(validatorKeysWithWeights) ==
    LET sorted == SortByField(validatorKeysWithWeights, "blsKey")
    IN  [weights |-> [i \in 1..Len(sorted) |-> validatorKeysWithWeights[i].weight],
         validatorKeys |-> [i \in 1..Len(sorted) |-> sorted[i].blsKey]]

\* getSortedWeightsAndValidatorKeys
GetSortedWeightsAndValidatorKeys(validatorKeysWithWeights) ==
    LET sorted == SortByField(validatorKeysWithWeights, "blsKey")
    IN  [weights |-> [i \in 1..Len(sorted) |-> sorted[i].weight],
         validatorKeys |-> [i \in 1..Len(sorted) |-> sorted[i].blsKey]]

(***************************************************************************)
(* Commit pool: verifyAggregateCommit                                      *)
(***************************************************************************)
AggregateCommit(height, aggregationBits, certificateSignature) ==
    [height |-> height, aggregationBits |-> aggregationBits,
     certificateSignature |-> certificateSignature]

\* chain.dataAccess.getBlockHeaderByHeight
HasBlockHeader(headers, height) == height >= 0 /\ height < Len(headers)
GetBlockHeaderByHeight(headers, height) == headers[height + 1]

\* Variant: gate 1 compares with the height after the certified one.
IsEmptyCommitAtCertified_OffByOne(aggregateCommit, maxHeightCertified) ==
    /\ Len(aggregateCommit.aggregationBits) = 0
    /\ Len(aggregateCommit.certificateSignature) = 0
    /\ aggregateCommit.height = maxHeightCertified + 1

\* Gate 1: the empty commit at the certified height.
IsEmptyCommitAtCertified(aggregateCommit, maxHeightCertified) ==
    /\ Len(aggregateCommit.aggregationBits) = 0
    /\ Len(aggregateCommit.certificateSignature) = 0
    /\ aggregateCommit.height = maxHeightCertified

\* Gate 2: empty bits or empty signature.
HasEmptyPart(aggregateCommit) ==
    \/ Len(aggregateCommit.aggregationBits) = 0
    \/ Len(aggregateCommit.certificateSignature) = 0

\* Variant: gate 3 is missing.
AtOrBelowCertified_Missing(aggregateCommit, maxHeightCertified) ==
    FALSE

\* Variant: gate 3 lets a commit at the certified height through.
AtOrBelowCertified_Strict(aggregateCommit, maxHeightCertified) ==
    aggregateCommit.height < maxHeightCertified

\* Gate 3
AtOrBelowCertified(aggregateCommit, maxHeightCertified) ==
    aggregateCommit.height <= maxHeightCertified

\* Gate 4
AbovePrecommitted(aggregateCommit, maxHeightPrecommitted) ==
    aggregateCommit.height > maxHeightPrecommitted

\* Variant: gate 5 lets a commit at the height of the next entry through.
ParametersExpire_OffByOne(store, aggregateCommit, maxHeightCertified) ==
    LET heightNextBFTParameters == GetNextHeightBFTParameters(store, maxHeightCertified + 1)
    IN  /\ heightNextBFTParameters.found
        /\ aggregateCommit.height > heightNextBFTParameters.value

\* Gate 5: the try block; a failed lookup is swallowed by the catch.
ParametersExpire(store, aggregateCommit, maxHeightCertified) ==
    LET heightNextBFTParameters == GetNextHeightBFTParameters(store, maxHeightCertified + 1)
    IN  /\ heightNextBFTParameters.found
        /\ aggregateCommit.height > heightNextBFTParameters.value - 1

\* Step 6: the reads and the delegated verification.  outcome is "returned"
\* (value = the boolean) or "threw"; calls lists the collaborators consulted.
VerifyStep6(store, headers, aggregateCommit) ==
    IF ~HasBlockHeader(headers, aggregateCommit.height)
    THEN [outcome |-> "threw", value |-> FALSE, calls |-> <<"getBlockHeaderByHeight">>]
    ELSE
      LET computed == ComputeCertificateFromBlockHeader(
                          GetBlockHeaderByHeight(headers, aggregateCommit.height))
          bftParams == GetBFTParameters(store, aggregateCommit.height)
      IN  IF ~computed.ok
          THEN [outcome |-> "threw", value |-> FALSE, calls |-> <<"getBlockHeaderByHeight">>]
          ELSE IF ~bftParams.found
          THEN [outcome |-> "threw", value |-> FALSE,
                calls |-> <<"getBlockHeaderByHeight", "getBFTParameters">>]
          ELSE
            LET validators == bftParams.value.validators
                lookups == [i \in 1..Len(validators) |-> "getValidatorAccount"]
                reads == <<"getBlockHeaderByHeight", "getBFTParameters">> \o lookups
            IN  IF ~AllAccountsKnown(validators)
                THEN [outcome |-> "threw", value |-> FALSE, calls |-> reads]
                ELSE
                  LET certificate ==
                          [blockID |-> computed.value.blockID,
                           height |-> computed.value.height,
                           stateRoot |-> computed.value.stateRoot,
                           timestamp |-> computed.value.timestamp,
                           validatorsHash |-> computed.value.validatorsHash,
                           aggregationBits |-> Some(aggregateCommit.aggregationBits),
                           signature |-> Some(aggregateCommit.certificateSignature)]
                      validatorKeysWithWeights ==
                          [i \in 1..Len(validators) |->
                              [weight |-> validators[i].bftWeight,
                               blsKey |-> GetValidatorAccount(validators[i].address).blsKey]]
                      sorted == GetSortedWeightsAndValidatorKeys(validatorKeysWithWeights)
                  IN  [outcome |-> "returned",
                       value |-> VerifyAggregateCertificateSignature(
                                     sorted.validatorKeys, sorted.weights,
                                     bftParams.value.certificateThreshold,
                                     NetworkIdentifier, certificate),
                       calls |-> Append(reads, "verifyAggregateCertificateSignature")]

\* Variant: the next-parameters lookup is made ahead of gates 2-4.
VerifyAggregateCommit_EagerLookup(votes, store, headers, aggregateCommit) ==
    LET heights == GetBFTHeights(votes)
        looked == <<"getBFTHeights", "getNextHeightBFTParameters">>
        decided(b) == [outcome |-> "returned", value |-> b, calls |-> looked]
    IN  IF IsEmptyCommitAtCertified(aggregateCommit, heights.maxHeightCertified)
        THEN [outcome |-> "returned", value |-> TRUE, calls |-> <<"getBFTHeights">>]
        ELSE IF HasEmptyPart(aggregateCommit) THEN decided(FALSE)
        ELSE IF AtOrBelowCertified(aggregateCommit, heights.maxHeightCertified)
        THEN decided(FALSE)
        ELSE IF AbovePrecommitted(aggregateCommit, heights.maxHeightPrecommitted)
        THEN decided(FALSE)
        ELSE IF ParametersExpire(store, aggregateCommit, heights.maxHeightCertified)
        THEN decided(FALSE)
        ELSE
          LET step6 == VerifyStep6(store, headers, aggregateCommit)
          IN  [outcome |-> step6.outcome, value |-> step6.value,
               calls |-> looked \o step6.calls]

\* verifyAggregateCommit
VerifyAggregateCommit(votes, store, headers, aggregateCommit) ==
    LET heights == GetBFTHeights(votes)
        decided(b) == [outcome |-> "returned", value |-> b, calls |-> <<"getBFTHeights">>]
    IN  IF IsEmptyCommitAtCertified(aggregateCommit, heights.maxHeightCertified)
        THEN decided(TRUE)
        ELSE IF HasEmptyPart(aggregateCommit) THEN decided(FALSE)
        ELSE IF AtOrBelowCertified(aggregateCommit, heights.maxHeightCertified)
        THEN decided(FALSE)
        ELSE IF AbovePrecommitted(aggregateCommit, heights.maxHeightPrecommitted)
        THEN decided(FALSE)
        ELSE IF ParametersExpire(store, aggregateCommit, heights.maxHeightCertified)
        THEN [outcome |-> "returned", value |-> FALSE,
              calls |-> <<"getBFTHeights", "getNextHeightBFTParameters">>]
        ELSE
          LET step6 == VerifyStep6(store, headers, aggregateCommit)
          IN  [outcome |-> step6.outcome, value |-> step6.value,
               calls |-> <<"getBFTHeights", "getNextHeightBFTParameters">> \o step6.calls]

\* verifyAggregateCommit when the store may fail under the next-parameters
\* lookup of step 5 (storeFails): the lookup then rejects with the store's
\* error, inside the try block whose catch has no condition.
VerifyAggregateCommitWithLookup(votes, store, headers, aggregateCommit, storeFails) ==
    LET heights == GetBFTHeights(votes)
        decidedEarly == \/ IsEmptyCommitAtCertified(aggregateCommit, heights.maxHeightCertified)
                        \/ HasEmptyPart(aggregateCommit)
                        \/ AtOrBelowCertified(aggregateCommit, heights.maxHeightCertified)
                        \/ AbovePrecommitted(aggregateCommit, heights.maxHeightPrecommitted)
    IN  IF decidedEarly \/ ~storeFails
        THEN VerifyAggregateCommit(votes, store, headers, aggregateCommit)
        ELSE
          LET step6 == VerifyStep6(store, headers, aggregateCommit)
          IN  [outcome |-> step6.outcome, value |-> step6.value,
               calls |-> <<"getBFTHeights", "getNextHeightBFTParameters">> \o step6.calls]

(***************************************************************************)
(* BFT state machine                                                       *)
(***************************************************************************)
Idle == [op |-> "none"]

BlockHeader(height) ==
    [id |-> <<"block", height>>,
     height |-> height,
     timestamp |-> 10 * height,
     generatorAddress |-> 1 + (height % 2),
     maxHeightGenerated |-> IF height >= 2 THEN height - 2 ELSE 0,
     maxHeightPrevoted |-> IF height >= 1 THEN height - 1 ELSE 0,
     stateRoot |-> Some(<<"state", height>>),
     validatorsHash |-> Some(<<"validators", height>>)]

\* The state after the genesis block: the votes record initialised at the
\* genesis height, no block info recorded, no parameter entry written yet.
BFTStart ==
    /\ bftVotes = [maxHeightPrevoted |-> 0,
                   maxHeightPrecommitted |-> 0,
                   maxHeightCertified |-> 0,
                   blockBFTInfos |-> <<>>,
                   activeValidatorsVoteInfo |-> <<>>]
    /\ paramsStore = <<>>
    /\ chain = <<BlockHeader(0)>>
    /\ bftRet = Idle

\* A commit pool as constructed: both maps empty, no call in flight.
NotVerifying == [pc |-> "none"]

PoolStart ==
    /\ nonGossipedCommits = <<>>
    /\ gossipedCommits = <<>>
    /\ verifying = NotVerifying

\* The caller takes the result of the call that returned (or threw).
Return ==
    /\ bftRet.op # "none"
    /\ bftRet' = Idle
    /\ UNCHANGED <<bftVotes, paramsStore, chain, treeVars, poolVars, hostVars>>

\* BFTAPI.getBFTHeights
CallGetBFTHeights ==
    /\ bftRet = Idle
    /\ bftRet' = [op |-> "getBFTHeights", value |-> GetBFTHeights(bftVotes)]
    /\ UNCHANGED <<bftVotes, paramsStore, chain, treeVars, poolVars, hostVars>>

\* What a suspended verifyAggregateCommit could read from the BFT stores, and
\* the record of it that a write leaves with the suspended call.
View(votes, store) == [heights |-> GetBFTHeights(votes), store |-> store]

Observed(call, votes, store) ==
    IF call.pc = "none" THEN call
    ELSE [call EXCEPT !.views = @ \cup {View(votes, store)}]

\* BFTAPI.setBFTParameters
SetBFTParameters(precommitThreshold, certificateThreshold, validators) ==
    /\ bftRet = Idle
    /\ LET res == SetBFTParametersResult(bftVotes, paramsStore, precommitThreshold,
                                         certificateThreshold, validators)
       IN  /\ paramsStore' = res.paramsStore
           /\ bftVotes' = res.bftVotes
           /\ bftRet' = [op |-> "setBFTParameters",
                         precommitThreshold |-> precommitThreshold,
                         certificateThreshold |-> certificateThreshold,
                         validators |-> validators,
                         outcome |-> IF res.error = "none" THEN "returned" ELSE "threw",
                         error |-> res.error]
           /\ verifying' = Observed(verifying, res.bftVotes, res.paramsStore)
    /\ UNCHANGED <<chain, treeVars, nonGossipedCommits, gossipedCommits, hostVars>>

\* The validator list the DPoS module derives from a snapshot: every active
\* delegate with BFT weight 1.
BftWeights(activeDelegates) ==
    [i \in 1..Len(activeDelegates) |-> [address |-> activeDelegates[i], bftWeight |-> 1]]

\* The condition under which afterBlockExecute calls setBFTParameters.
NeedsNewParameters(currentBFTParameters, bftWeights, bftThreshold) ==
    \/ currentBFTParameters.validators = bftWeights
    \/ currentBFTParameters.precommitThreshold # bftThreshold
    \/ currentBFTParameters.certificateThreshold # bftThreshold

\* DPoSModule.afterBlockExecute at the end of a round after the init rounds,
\* from the read of the snapshot of two rounds ago to the setBFTParameters
\* call.  `activeDelegates` is the active-delegate list of that snapshot and
\* `bftThreshold` the configured threshold.
AfterBlockExecute(activeDelegates, bftThreshold) ==
    /\ bftRet = Idle
    /\ Len(bftVotes.blockBFTInfos) > 0
    /\ LET bftWeights == BftWeights(activeDelegates)
           current == GetBFTParameters(paramsStore, bftVotes.blockBFTInfos[1].height)
           called == IF current.found
                     THEN NeedsNewParameters(current.value, bftWeights, bftThreshold)
                     ELSE FALSE
           res == IF called
                  THEN SetBFTParametersResult(bftVotes, paramsStore, bftThreshold,
                                              bftThreshold, bftWeights)
                  ELSE [error |-> IF current.found THEN "none" ELSE "BFTParameterNotFoundError",
                        paramsStore |-> paramsStore, bftVotes |-> bftVotes]
       IN  /\ paramsStore' = res.paramsStore
           /\ bftVotes' = res.bftVotes
           /\ bftRet' = [op |-> "afterBlockExecute",
                         bftWeights |-> bftWeights,
                         bftThreshold |-> bftThreshold,
                         current |-> current,
                         called |-> called,
                         outcome |-> IF res.error = "none" THEN "returned" ELSE "threw",
                         error |-> res.error]
           /\ verifying' = Observed(verifying, res.bftVotes, res.paramsStore)
    /\ UNCHANGED <<chain, treeVars, nonGossipedCommits, gossipedCommits, hostVars>>

\* CommitPool.verifyAggregateCommit
CallVerifyAggregateCommit(aggregateCommit) ==
    /\ bftRet = Idle
    /\ LET res == VerifyAggregateCommit(bftVotes, paramsStore, chain, aggregateCommit)
       IN  bftRet' = [op |-> "verifyAggregateCommit",
                      aggregateCommit |-> aggregateCommit,
                      outcome |-> res.outcome,
                      value |-> res.value,
                      calls |-> res.calls]
    /\ UNCHANGED <<bftVotes, paramsStore, chain, treeVars, poolVars, hostVars>>

\* CommitPool.verifyAggregateCommit on a store that may fail under the lookup
\* of step 5; lookup records whether it did.
CallVerifyAggregateCommitWithLookup(aggregateCommit, storeFails) ==
    /\ bftRet = Idle
    /\ LET res == VerifyAggregateCommitWithLookup(bftVotes, paramsStore, chain,
                                                  aggregateCommit, storeFails)
       IN  bftRet' = [op |-> "verifyAggregateCommit",
                      aggregateCommit |-> aggregateCommit,
                      outcome |-> res.outcome,
                      value |-> res.value,
                      calls |-> res.calls,
                      lookup |-> IF ~storeFails THEN "completed"
                                 ELSE IF Len(res.calls) >= 2 THEN "storeError"
                                 ELSE "notReached"]
    /\ UNCHANGED <<bftVotes, paramsStore, chain, treeVars, poolVars, hostVars>>

\* verifyAggregateCommit as the event loop runs it: the function is suspended
\* at each await, and whatever runs in between writes to the store that the
\* context handle reads.  A suspended call keeps its argument, the heights it
\* has read and, for the record, every view (heights, parameter store) that
\* was current at some time during the call.

VerifyResult(aggregateCommit, res, reads, views) ==
    [op |-> "verifyAggregateCommit",
     aggregateCommit |-> aggregateCommit,
     outcome |-> res.outcome,
     value |-> res.value,
     calls |-> res.calls,
     reads |-> reads,
     views |-> views]

\* Up to the second await: getBFTHeights and gates 1 to 4.
VerifyAggregateCommitBegin(aggregateCommit) ==
    /\ bftRet = Idle
    /\ verifying = NotVerifying
    /\ LET heights == GetBFTHeights(bftVotes)
           reads == [heights |-> heights, next |-> Undefined, bftParams |-> Undefined]
           views == {View(bftVotes, paramsStore)}
           decidedEarly ==
               \/ IsEmptyCommitAtCertified(aggregateCommit, heights.maxHeightCertified)
               \/ HasEmptyPart(aggregateCommit)
               \/ AtOrBelowCertified(aggregateCommit, heights.maxHeightCertified)
               \/ AbovePrecommitted(aggregateCommit, heights.maxHeightPrecommitted)
       IN  IF decidedEarly
           THEN /\ bftRet' = VerifyResult(aggregateCommit,
                                  VerifyAggregateCommit(bftVotes, paramsStore, chain, aggregateCommit),
                                  reads, views)
                /\ UNCHANGED verifying
           ELSE /\ verifying' = [pc |-> "getNextHeightBFTParameters",
                                 aggregateCommit |-> aggregateCommit,
                                 reads |-> reads,
                                 views |-> views]
                /\ UNCHANGED bftRet
    /\ UNCHANGED <<bftVotes, paramsStore, chain, treeVars, nonGossipedCommits, gossipedCommits, hostVars>>

\* Step 5: the lookup reads the store as it is when the call resumes.
VerifyAggregateCommitLookup ==
    /\ bftRet = Idle
    /\ verifying.pc = "getNextHeightBFTParameters"
    /\ LET aggregateCommit == verifying.aggregateCommit
           maxHeightCertified == verifying.reads.heights.maxHeightCertified
           reads == [verifying.reads EXCEPT
                        !.next = Some(GetNextHeightBFTParameters(paramsStore, maxHeightCertified + 1))]
           views == verifying.views \cup {View(bftVotes, paramsStore)}
       IN  IF ParametersExpire(paramsStore, aggregateCommit, maxHeightCertified)
           THEN /\ bftRet' = VerifyResult(aggregateCommit,
                                  [outcome |-> "returned", value |-> FALSE,
                                   calls |-> <<"getBFTHeights", "getNextHeightBFTParameters">>],
                                  reads, views)
                /\ verifying' = NotVerifying
           ELSE /\ verifying' = [verifying EXCEPT !.pc = "getBlockHeaderByHeight",
                                                  !.reads = reads, !.views = views]
                /\ UNCHANGED bftRet
    /\ UNCHANGED <<bftVotes, paramsStore, chain, treeVars, nonGossipedCommits, gossipedCommits, hostVars>>

\* Step 6, first read: the block header and its certificate.
VerifyAggregateCommitHeader ==
    /\ bftRet = Idle
    /\ verifying.pc = "getBlockHeaderByHeight"
    /\ LET aggregateCommit == verifying.aggregateCommit
       IN  IF ~HasBlockHeader(chain, aggregateCommit.height)
           THEN /\ bftRet' = VerifyResult(aggregateCommit,
                                  [outcome |-> "threw", value |-> FALSE,
                                   calls |-> <<"getBFTHeights", "getNextHeightBFTParameters",
                                               "getBlockHeaderByHeight">>],
                                  verifying.reads, verifying.views)
                /\ verifying' = NotVerifying
           ELSE /\ verifying' = [verifying EXCEPT !.pc = "getBFTParameters"]
                /\ UNCHANGED bftRet
    /\ UNCHANGED <<bftVotes, paramsStore, chain, treeVars, nonGossipedCommits, gossipedCommits, hostVars>>

\* Step 6, the remaining reads and the signature check: getBFTParameters reads
\* the store as it is now.
VerifyAggregateCommitParameters ==
    /\ bftRet = Idle
    /\ verifying.pc = "getBFTParameters"
    /\ LET aggregateCommit == verifying.aggregateCommit
           step6 == VerifyStep6(paramsStore, chain, aggregateCommit)
           reads == [verifying.reads EXCEPT
                        !.bftParams = Some(GetBFTParameters(paramsStore, aggregateCommit.height))]
       IN  bftRet' = VerifyResult(aggregateCommit,
                         [outcome |-> step6.outcome, value |-> step6.value,
                          calls |-> <<"getBFTHeights", "getNextHeightBFTParameters">> \o step6.calls],
                         reads, verifying.views \cup {View(bftVotes, paramsStore)})
    /\ verifying' = NotVerifying
    /\ UNCHANGED <<bftVotes, paramsStore, chain, treeVars, nonGossipedCommits, gossipedCommits, hostVars>>

\* BlockBFTInfo is put in front of the list, and the prevoted and precommitted
\* heights are recomputed; they only grow and stay in order.
ExecuteBlock(prevoted, precommitted) ==
    /\ bftRet = Idle
    /\ Len(chain) <= MaxHeight
    /\ LET header == BlockHeader(Len(chain))
       IN  /\ bftVotes.maxHeightPrevoted <= prevoted /\ prevoted <= header.height
           /\ bftVotes.maxHeightPrecommitted <= precommitted /\ precommitted <= prevoted
           /\ chain' = Append(chain, header)
           /\ bftVotes' = [bftVotes EXCEPT
                  !.blockBFTInfos =
                      <<[height |-> header.height,
                         generatorAddress |-> header.generatorAddress,
                         maxHeightGenerated |-> header.maxHeightGenerated,
                         maxHeightPrevoted |-> header.maxHeightPrevoted]>> \o @,
                  !.maxHeightPrevoted = prevoted,
                  !.maxHeightPrecommitted = precommitted]
           /\ verifying' = Observed(verifying, bftVotes', paramsStore)
    /\ UNCHANGED <<paramsStore, bftRet, treeVars, nonGossipedCommits, gossipedCommits, hostVars>>

\* Certificate finalization: the block carrying the aggregate commit that
\* verifyAggregateCommit has just accepted is executed, which makes the
\* commit's height the certified height.
FinalizeCertificate ==
    /\ bftRet.op = "verifyAggregateCommit"
    /\ bftRet.outcome = "returned"
    /\ bftRet.value
    /\ bftVotes' = [bftVotes EXCEPT !.maxHeightCertified = bftRet.aggregateCommit.height]
    /\ bftRet' = Idle
    /\ UNCHANGED <<paramsStore, chain, treeVars, poolVars, hostVars>>

\* Block execution with the header's BFT fields chosen freely: the block
\* info is put in front of the list; the derived heights stay as they are.
RecordBlock(generatorAddress, maxHeightGenerated, maxHeightPrevoted) ==
    /\ bftRet = Idle
    /\ Len(chain) <= MaxHeight
    /\ LET height == Len(chain)
           header == [BlockHeader(height) EXCEPT
                         !.id = BFTHeader(generatorAddress, height, maxHeightGenerated,
                                          maxHeightPrevoted).id,
                         !.generatorAddress = generatorAddress,
                         !.maxHeightGenerated = maxHeightGenerated,
                         !.maxHeightPrevoted = maxHeightPrevoted]
       IN  /\ maxHeightGenerated < height /\ maxHeightPrevoted < height
           /\ chain' = Append(chain, header)
           /\ bftVotes' = [bftVotes EXCEPT
                  !.blockBFTInfos =
                      <<[height |-> header.height,
                         generatorAddress |-> header.generatorAddress,
                         maxHeightGenerated |-> header.maxHeightGenerated,
                         maxHeightPrevoted |-> header.maxHeightPrevoted]>> \o @]
    /\ UNCHANGED <<paramsStore, bftRet, treeVars, poolVars, hostVars>>

\* BFTAPI.areHeadersContradicting
CallAreHeadersContradicting(bftHeader1, bftHeader2) ==
    /\ bftRet = Idle
    /\ bftRet' = [op |-> "areHeadersContradicting",
                  bftHeader1 |-> bftHeader1, bftHeader2 |-> bftHeader2,
                  value |-> AreHeadersContradicting(bftHeader1, bftHeader2)]
    /\ UNCHANGED <<bftVotes, paramsStore, chain, treeVars, poolVars, hostVars>>

\* BFTAPI.isHeaderContradictingChain
CallIsHeaderContradictingChain(header) ==
    /\ bftRet = Idle
    /\ bftRet' = [op |-> "isHeaderContradictingChain", header |-> header,
                  value |-> IsHeaderContradictingChain(bftVotes, header)]
    /\ UNCHANGED <<bftVotes, paramsStore, chain, treeVars, poolVars, hostVars>>

\* BFTAPI.impliesMaximalPrevotes
CallImpliesMaximalPrevotes(header) ==
    /\ bftRet = Idle
    /\ LET res == ImpliesMaximalPrevotes(bftVotes, header)
       IN  bftRet' = [op |-> "impliesMaximalPrevotes", header |-> header,
                      outcome |-> res.outcome, value |-> res.value]
    /\ UNCHANGED <<bftVotes, paramsStore, chain, treeVars, poolVars, hostVars>>

\* BFTAPI.getBFTParameters
CallGetBFTParameters(height) ==
    /\ bftRet = Idle
    /\ LET res == GetBFTParameters(paramsStore, height)
       IN  bftRet' = [op |-> "getBFTParameters", height |-> height,
                      outcome |-> IF res.found THEN "returned" ELSE "threw",
                      error |-> IF res.found THEN "none" ELSE "BFTParameterNotFoundError",
                      value |-> res.value]
    /\ UNCHANGED <<bftVotes, paramsStore, chain, treeVars, poolVars, hostVars>>

\* BFTAPI.getNextHeightBFTParameters
CallGetNextHeightBFTParameters(height) ==
    /\ bftRet = Idle
    /\ LET res == GetNextHeightBFTParameters(paramsStore, height)
       IN  bftRet' = [op |-> "getNextHeightBFTParameters", height |-> height,
                      outcome |-> IF res.found THEN "returned" ELSE "threw",
                      error |-> IF res.found THEN "none" ELSE "BFTParameterNotFoundError",
                      value |-> res.value]
    /\ UNCHANGED <<bftVotes, paramsStore, chain, treeVars, poolVars, hostVars>>

\* BFTAPI.getCurrentValidators
CallGetCurrentValidators ==
    /\ bftRet = Idle
    /\ LET res == GetCurrentValidators(bftVotes, paramsStore)
       IN  bftRet' = [op |-> "getCurrentValidators", outcome |-> res.outcome,
                      error |-> res.error, value |-> res.value]
    /\ UNCHANGED <<bftVotes, paramsStore, chain, treeVars, poolVars, hostVars>>

(***************************************************************************)
(* Inputs                                                                  *)
(***************************************************************************)
BlsKeys == {ValidatorAccounts[a] : a \in DOMAIN ValidatorAccounts}

Heights == 0..MaxHeight

\* The message signed for the block at `height`, under the certificate tag and
\* under another tag.
SignedMessage(headers, height, tag) ==
    TaggedMessage(tag, NetworkIdentifier,
                  CertificateMessage(ComputeCertificateFromBlockHeader(
                                         GetBlockHeaderByHeight(headers, height)).value))

\* Signatures offered for the block at `height`: none, the certificate signed
\* by any non-empty set of keys, and the same message signed by every key under
\* another tag.
Signatures(headers, height) ==
    IF ~HasBlockHeader(headers, height) THEN {EmptyBuffer}
    ELSE {EmptyBuffer}
         \cup {<<signers, SignedMessage(headers, height, MESSAGE_TAG_CERTIFICATE)>> :
                  signers \in (SUBSET BlsKeys) \ {{}}}
         \cup {<<BlsKeys, SignedMessage(headers, height, "LSK_TX_")>>}

\* Bitmaps: the empty buffer, or one bit per validator position.
AggregationBits == {EmptyBuffer} \cup [1..BatchSize -> {0, 1}]

AggregateCommits(headers) ==
    UNION {{AggregateCommit(height, bits, signature) :
                bits \in AggregationBits, signature \in Signatures(headers, height)} :
           height \in Heights}

\* Inputs of setBFTParameters in the full state machine: two valid parameter
\* sets and one input for each way the call fails.
ParameterInputs ==
    {<<1, 1, <<Validator(1, 1)>>>>,
     <<3, 2, <<Validator(2, 1), Validator(1, 2)>>>>,
     <<1, 1, <<Validator(1, 1), Validator(2, 1), Validator(1, 1)>>>>,
     <<1, 1, <<Validator(1, 0)>>>>,
     <<0, 1, <<Validator(1, 1)>>>>,
     <<1, 2, <<Validator(1, 1)>>>>,
     <<1, 1, <<Validator(3, 1)>>>>}

(***************************************************************************)
(* Commit pool: single commits                                             *)
(***************************************************************************)
\* One validator's signature over the certificate of the block at `height`.
SingleCommit(height, validatorAddress) ==
    [blockID |-> BlockHeader(height).id,
     height |-> height,
     validatorAddress |-> validatorAddress,
     certificateSignature |-> <<"signed", validatorAddress, height>>]

\* addCommit has an empty body: the map it is meant to fill stays as it is.
AddCommit(commits, commit, height) == commits

\* validateCommit takes no argument and returns true.
ValidateCommit == TRUE

\* getCommitsByHeight returns an empty array whatever the height.
GetCommitsByHeight(commits, height) == <<>>

\* CommitPool.addCommit
CallAddCommit(commit, height) ==
    /\ bftRet = Idle
    /\ nonGossipedCommits' = AddCommit(nonGossipedCommits, commit, height)
    /\ bftRet' = [op |-> "addCommit", commit |-> commit, height |-> height]
    /\ UNCHANGED <<bftVotes, paramsStore, chain, treeVars, gossipedCommits, verifying, hostVars>>

\* CommitPool.validateCommit, called by someone holding `commit`
CallValidateCommit(commit) ==
    /\ bftRet = Idle
    /\ bftRet' = [op |-> "validateCommit", commit |-> commit, value |-> ValidateCommit]
    /\ UNCHANGED <<bftVotes, paramsStore, chain, treeVars, poolVars, hostVars>>

\* CommitPool.getCommitsByHeight
CallGetCommitsByHeight(height) ==
    /\ bftRet = Idle
    /\ bftRet' = [op |-> "getCommitsByHeight", height |-> height,
                  value |-> GetCommitsByHeight(nonGossipedCommits, height)]
    /\ UNCHANGED <<bftVotes, paramsStore, chain, treeVars, poolVars, hostVars>>

SingleCommits == {SingleCommit(height, address) : height \in Heights, address \in Addresses}

\* The pool's own operations on a chain that grows and whose parameters are set.
NextPool ==
    \/ /\ bftRet = Idle
       /\ NextHeight(bftVotes) <= MaxHeight
       /\ \E input \in ParameterInputs : SetBFTParameters(input[1], input[2], input[3])
    \/ \E prevoted \in Heights, precommitted \in Heights : ExecuteBlock(prevoted, precommitted)
    \/ /\ bftRet = Idle
       /\ \E commit \in SingleCommits : CallAddCommit(commit, commit.height)
    \/ /\ bftRet = Idle
       /\ \E commit \in SingleCommits : CallValidateCommit(commit)
    \/ /\ bftRet = Idle
       /\ \E height \in Heights : CallGetCommitsByHeight(height)
    \/ Return

(***************************************************************************)
(* The certificate utilities, called on their own                          *)
(***************************************************************************)
\* computeCertificateFromBlockHeader
CallComputeCertificateFromBlockHeader(blockHeader) ==
    /\ bftRet = Idle
    /\ LET res == ComputeCertificateFromBlockHeader(blockHeader)
       IN  bftRet' = [op |-> "computeCertificateFromBlockHeader",
                      blockHeader |-> blockHeader,
                      outcome |-> IF res.ok THEN "returned" ELSE "threw",
                      value |-> res.value]
    /\ UNCHANGED <<bftVotes, paramsStore, chain, treeVars, poolVars, hostVars>>

\* verifyAggregateCertificateSignature
CallVerifyAggregateCertificateSignature(keysList, weights, threshold, certificate) ==
    /\ bftRet = Idle
    /\ bftRet' = [op |-> "verifyAggregateCertificateSignature",
                  keysList |-> keysList,
                  weights |-> weights,
                  threshold |-> threshold,
                  certificate |-> certificate,
                  primitive |-> WeightedAggSigArguments(NetworkIdentifier, certificate),
                  value |-> VerifyAggregateCertificateSignature(
                                keysList, weights, threshold, NetworkIdentifier, certificate)]
    /\ UNCHANGED <<bftVotes, paramsStore, chain, treeVars, poolVars, hostVars>>

\* getSortedWeightsAndValidatorKeys: the function sorts a copy of the list it
\* is given; paramAfter is the caller's list once the call has returned.
CallGetSortedWeightsAndValidatorKeys(validatorKeysWithWeightsParam) ==
    /\ bftRet = Idle
    /\ bftRet' = [op |-> "getSortedWeightsAndValidatorKeys",
                  param |-> validatorKeysWithWeightsParam,
                  paramAfter |-> validatorKeysWithWeightsParam,
                  value |-> GetSortedWeightsAndValidatorKeys(validatorKeysWithWeightsParam)]
    /\ UNCHANGED <<bftVotes, paramsStore, chain, treeVars, poolVars, hostVars>>

\* Block headers with the state root and the validators hash present, absent,
\* or (the state root) an empty buffer.
CertificateHeaders ==
    UNION {{[BlockHeader(h) EXCEPT !.stateRoot = stateRoot, !.validatorsHash = validatorsHash] :
               stateRoot \in {Undefined, Some(EmptyBuffer), Some(<<"state", h>>)},
               validatorsHash \in {Undefined, Some(<<"validators", h>>)}} :
           h \in Heights}

AllHeaders == [i \in 1..(MaxHeight + 1) |-> BlockHeader(i - 1)]

\* Certificates of those blocks with the bitmap and the signature absent or
\* attached; the signatures are those offered for any of the blocks.
Certificates ==
    UNION {{[ComputeCertificateFromBlockHeader(BlockHeader(h)).value EXCEPT
                !.aggregationBits = bits, !.signature = signature] :
               bits \in {Undefined} \cup {Some(b) : b \in AggregationBits},
               signature \in {Undefined} \cup
                              {Some(x) : x \in UNION {Signatures(AllHeaders, g) : g \in Heights}}} :
           h \in Heights}

\* Lists of (BLS key, weight) pairs, keys repeated or not.
KeysWithWeights ==
    SeqsUpTo([weight : 1..MaxWeight, blsKey : BlsKeys \cup {13}], BatchSize + 1)

NextCertificates ==
    \/ /\ bftRet = Idle
       /\ \E blockHeader \in CertificateHeaders :
             CallComputeCertificateFromBlockHeader(blockHeader)
    \/ /\ bftRet = Idle
       /\ \E certificate \in Certificates, threshold \in 1..BatchSize :
             CallVerifyAggregateCertificateSignature(<<11, 12>>, <<1, 1>>, threshold, certificate)
    \/ /\ bftRet = Idle
       /\ \E list \in KeysWithWeights : CallGetSortedWeightsAndValidatorKeys(list)
    \/ Return

(***************************************************************************)
(* IPC channel: invoke, subscribe and unsubscribe                          *)
(***************************************************************************)
EventNames == {"betaName:beta1"}
Callbacks == {1, 2}

NoEvent == [eventName |-> "", callbacks |-> <<>>]

ChannelStart ==
    /\ requestId = 0
    /\ rpcRequestIds = {}
    /\ emitter = <<>>
    /\ subSocket = [eventName \in EventNames |-> 0]
    /\ invocations = <<>>
    /\ subscribed = {}
    /\ notified = NoEvent

\* The listeners of `key`, in registration order.
Listeners(listeners, key) == SelectSeq(listeners, LAMBDA l : l.key = key)

\* emitter.off(key, fn): the listeners without those registered as `fn`.
Off(listeners, key, fn) == SelectSeq(listeners, LAMBDA l : ~(l.key = key /\ l.fn = fn))

\* The listeners left after an emit of `key`: those registered with once go.
AfterEmit(listeners, key) == SelectSeq(listeners, LAMBDA l : ~(l.key = key /\ l.once))

\* invoke of an action of another module, up to the send
Invoke ==
    /\ requestId < MaxRequests
    /\ LET id == ToString(requestId + 1)
       IN  /\ requestId' = requestId + 1
           /\ rpcRequestIds' = rpcRequestIds \cup {id}
           /\ invocations' = Store(invocations, id,
                                   [send |-> "pending", timer |-> "unset",
                                    promise |-> "pending", response |-> "none"])
    /\ UNCHANGED <<emitter, subSocket, subscribed, notified>>
    /\ UNCHANGED <<treeVars, bftVars, poolVars, controllerVars, cacheVars>>

\* the send of an invoke resolves: the timeout is set and the response
\* listener is registered
SendResolves(id) ==
    /\ id \in DOMAIN invocations
    /\ invocations[id].send = "pending"
    /\ invocations' = [invocations EXCEPT ![id].send = "sent", ![id].timer = "armed"]
    /\ emitter' = Append(emitter, [key |-> id, fn |-> <<"response", id>>, once |-> TRUE])
    /\ UNCHANGED <<requestId, rpcRequestIds, subSocket, subscribed, notified>>
    /\ UNCHANGED <<treeVars, bftVars, poolVars, controllerVars, cacheVars>>

\* the send of an invoke rejects: the catch handler throws the error again
SendFails(id) ==
    /\ id \in DOMAIN invocations
    /\ invocations[id].send = "pending"
    /\ invocations[id].response = "none"
    /\ invocations' = [invocations EXCEPT ![id].send = "failed"]
    /\ UNCHANGED <<requestId, rpcRequestIds, emitter, subSocket, subscribed, notified>>
    /\ UNCHANGED <<treeVars, bftVars, poolVars, controllerVars, cacheVars>>

\* listenToRPCResponse: the response to request `id` is received
ReceiveResponse(id) ==
    /\ id \in DOMAIN invocations
    /\ invocations[id].send # "failed"
    /\ invocations[id].response = "none"
    /\ LET heard == id \in rpcRequestIds /\ Len(Listeners(emitter, id)) > 0
       IN  /\ invocations' =
                 [invocations EXCEPT
                    ![id].response = IF heard THEN "handled" ELSE "dropped",
                    ![id].timer = IF heard THEN "cleared" ELSE @,
                    ![id].promise = IF heard /\ @ = "pending" THEN "resolved" ELSE @]
           /\ rpcRequestIds' = IF heard THEN rpcRequestIds \ {id} ELSE rpcRequestIds
           /\ emitter' = IF id \in rpcRequestIds THEN AfterEmit(emitter, id) ELSE emitter
    /\ UNCHANGED <<requestId, subSocket, subscribed, notified>>
    /\ UNCHANGED <<treeVars, bftVars, poolVars, controllerVars, cacheVars>>

\* the request timeout of an invoke fires
RequestTimeout(id) ==
    /\ id \in DOMAIN invocations
    /\ invocations[id].timer = "armed"
    /\ invocations' =
          [invocations EXCEPT ![id].timer = "fired",
                              ![id].promise = IF @ = "pending" THEN "rejected" ELSE @]
    /\ UNCHANGED <<requestId, rpcRequestIds, emitter, subSocket, subscribed, notified>>
    /\ UNCHANGED <<treeVars, bftVars, poolVars, controllerVars, cacheVars>>

\* subscribe(eventName, cb)
Subscribe(eventName, cb) ==
    /\ <<eventName, cb>> \notin subscribed
    /\ Len(emitter) < MaxSubscriptions
    /\ subSocket' = [subSocket EXCEPT ![eventName] = @ + 1]
    /\ emitter' = Append(emitter, [key |-> eventName, fn |-> <<"wrapper", cb>>, once |-> FALSE])
    /\ subscribed' = subscribed \cup {<<eventName, cb>>}
    /\ notified' = NoEvent
    /\ UNCHANGED <<requestId, rpcRequestIds, invocations>>
    /\ UNCHANGED <<treeVars, bftVars, poolVars, controllerVars, cacheVars>>

\* unsubscribe(eventName, cb)
Unsubscribe(eventName, cb) ==
    /\ <<eventName, cb>> \in subscribed
    /\ subSocket' = [subSocket EXCEPT ![eventName] = IF @ > 0 THEN @ - 1 ELSE 0]
    /\ emitter' = Off(emitter, eventName, <<"cb", cb>>)
    /\ subscribed' = subscribed \ {<<eventName, cb>>}
    /\ notified' = NoEvent
    /\ UNCHANGED <<requestId, rpcRequestIds, invocations>>
    /\ UNCHANGED <<treeVars, bftVars, poolVars, controllerVars, cacheVars>>

\* listenToMessages: an event the sub socket is subscribed to is received and
\* emitted on the local emitter
ReceiveEvent(eventName) ==
    /\ subSocket[eventName] > 0
    /\ LET heard == Listeners(emitter, eventName)
       IN  notified' = [eventName |-> eventName,
                        callbacks |-> [i \in 1..Len(heard) |-> heard[i].fn[2]]]
    /\ emitter' = AfterEmit(emitter, eventName)
    /\ UNCHANGED <<requestId, rpcRequestIds, subSocket, invocations, subscribed>>
    /\ UNCHANGED <<treeVars, bftVars, poolVars, controllerVars, cacheVars>>

RequestIds == {ToString(n) : n \in 1..MaxRequests}

(***************************************************************************)
(* Controller: unloading a child-process plugin                            *)
(***************************************************************************)
PluginNames == {"plugin"}

NotUnloading ==
    [finished |-> FALSE, error |-> FALSE, timer |-> "unset", promise |-> "none", raised |-> "none"]

\* The registry after _loadChildProcessPlugin of every plugin.
ControllerStart ==
    /\ childProcesses = [name \in PluginNames |-> [connected |-> TRUE]]
    /\ unloading = [name \in PluginNames |-> NotUnloading]

\* delete this._childProcesses[name]
DeleteChild(children, name) == [n \in DOMAIN children \ {name} |-> children[n]]

\* The child process loses its connection to the controller.
ChildDisconnects(name) ==
    /\ name \in DOMAIN childProcesses
    /\ childProcesses[name].connected
    /\ unloading[name].promise = "none"
    /\ childProcesses' = [childProcesses EXCEPT ![name].connected = FALSE]
    /\ UNCHANGED unloading
    /\ UNCHANGED <<treeVars, bftVars, poolVars, channelVars, cacheVars>>

\* _unloadChildProcessPlugin(name), up to the await of the race
UnloadChildProcessPlugin(name) ==
    /\ name \in DOMAIN childProcesses
    /\ unloading[name].promise = "none"
    /\ IF ~childProcesses[name].connected
       THEN /\ childProcesses' = DeleteChild(childProcesses, name)
            /\ unloading' = [unloading EXCEPT ![name].promise = "rejected"]
       ELSE /\ unloading' = [unloading EXCEPT ![name] =
                                [finished |-> TRUE, error |-> TRUE, timer |-> "armed",
                                 promise |-> "pending", raised |-> "none"]]
            /\ UNCHANGED childProcesses
    /\ UNCHANGED <<treeVars, bftVars, poolVars, channelVars, cacheVars>>

\* the listener of `${name}:unloading:finished` runs
UnloadingFinished(name) ==
    /\ unloading[name].finished
    /\ childProcesses' = DeleteChild(childProcesses, name)
    /\ unloading' = [unloading EXCEPT ![name].finished = FALSE,
                                      ![name].promise = IF @ = "pending" THEN "resolved" ELSE @]
    /\ UNCHANGED <<treeVars, bftVars, poolVars, channelVars, cacheVars>>

\* the listener of `${name}:unloading:error` runs
UnloadingError(name) ==
    /\ unloading[name].error
    /\ childProcesses' = DeleteChild(childProcesses, name)
    /\ unloading' = [unloading EXCEPT ![name].error = FALSE,
                                      ![name].promise = IF @ = "pending" THEN "rejected" ELSE @]
    /\ UNCHANGED <<treeVars, bftVars, poolVars, channelVars, cacheVars>>

\* the 2-second timer of the unload fires: it kills this._childProcesses[name],
\* and reading `kill` of an entry that is gone raises a TypeError
UnloadTimeout(name) ==
    /\ unloading[name].timer = "armed"
    /\ IF name \in DOMAIN childProcesses
       THEN /\ childProcesses' = DeleteChild(childProcesses, name)
            /\ unloading' = [unloading EXCEPT
                                ![name].timer = "fired",
                                ![name].promise = IF @ = "pending" THEN "rejected" ELSE @]
       ELSE /\ unloading' = [unloading EXCEPT ![name].timer = "fired",
                                              ![name].raised = "TypeError"]
            /\ UNCHANGED childProcesses
    /\ UNCHANGED <<treeVars, bftVars, poolVars, channelVars, cacheVars>>

(***************************************************************************)
(* Cache: the redis client's error and ready events                        *)
(***************************************************************************)
CacheStart ==
    /\ cacheReady = FALSE
    /\ client = [created |-> FALSE, listeners |-> <<>>, ready |-> FALSE, ended |-> FALSE]
    /\ logged = <<>>

\* this.client.once / on (event, fn)
AddListener(listeners, event, fn, once) ==
    Append(listeners, [key |-> event, fn |-> fn, once |-> once])

\* Cache.bootstrap.  `fn.bind(this)` is a new function: <<"bound", name>> is
\* not <<"method", name>>.
Bootstrap ==
    /\ ~client.created
    /\ client' = [created |-> TRUE, ready |-> FALSE, ended |-> FALSE,
                  listeners |->
                     AddListener(AddListener(<<>>, "error", <<"bound", "_onConnectionError">>, TRUE),
                                 "ready", <<"bound", "_onReady">>, TRUE)]
    /\ logged' = <<>>
    /\ UNCHANGED cacheReady
    /\ UNCHANGED <<treeVars, bftVars, poolVars, channelVars, controllerVars>>

\* What one listener of the client logs when it runs; quit() is part of
\* _onConnectionError.
Logs(fn) ==
    IF fn = <<"bound", "_onConnectionError">>
    THEN <<"App was unable to connect to Cache server", "Cache - Quit database">>
    ELSE IF fn = <<"bound", "_onReady">> THEN <<"App connected to Cache server">>
    ELSE <<"Cache:">>

RECURSIVE LogsOf(_)
LogsOf(heard) == IF heard = <<>> THEN <<>> ELSE Logs(heard[1].fn) \o LogsOf(Tail(heard))

Runs(heard, fn) == \E i \in 1..Len(heard) : heard[i].fn = fn

\* the client emits 'error'; `staysReady` tells whether client.ready survives
\* the error (a connection error clears it)
ClientError(staysReady) ==
    /\ client.created
    /\ ~client.ended
    /\ LET heard == Listeners(client.listeners, "error")
           ready == client.ready /\ staysReady
           quits == Runs(heard, <<"bound", "_onConnectionError">>) /\ ready
       IN  /\ client' = [client EXCEPT !.ready = ready,
                                       !.ended = quits,
                                       !.listeners = AfterEmit(client.listeners, "error")]
           /\ logged' = IF heard = <<>> THEN <<"Unhandled 'error' event">> ELSE LogsOf(heard)
    /\ UNCHANGED cacheReady
    /\ UNCHANGED <<treeVars, bftVars, poolVars, channelVars, controllerVars>>

\* the client emits 'ready'
ClientReady ==
    /\ client.created
    /\ ~client.ended
    /\ ~client.ready
    /\ LET heard == Listeners(client.listeners, "ready")
           handled == Runs(heard, <<"bound", "_onReady">>)
           left == AfterEmit(client.listeners, "ready")
       IN  /\ client' = [client EXCEPT
                            !.ready = TRUE,
                            !.listeners =
                                IF handled
                                THEN AddListener(Off(left, "error", <<"method", "_onConnectionError">>),
                                                 "error", <<"arrow", "log">>, FALSE)
                                ELSE left]
           /\ cacheReady' = (cacheReady \/ handled)
           /\ logged' = LogsOf(heard)
    /\ UNCHANGED <<treeVars, bftVars, poolVars, channelVars, controllerVars>>

HostStart == ChannelStart /\ ControllerStart /\ CacheStart

\* The controller unloading its child-process plugins while the cache's
\* client connects and fails.
NextHost ==
    \/ \E name \in PluginNames : ChildDisconnects(name)
    \/ \E name \in PluginNames : UnloadChildProcessPlugin(name)
    \/ \E name \in PluginNames : UnloadingFinished(name)
    \/ \E name \in PluginNames : UnloadingError(name)
    \/ \E name \in PluginNames : UnloadTimeout(name)
    \/ Bootstrap
    \/ \E staysReady \in BOOLEAN : ClientError(staysReady)
    \/ ClientReady

\* A channel on which actions of other modules are invoked and events are
\* subscribed to, unsubscribed from and received.
NextChannel ==
    \/ Invoke
    \/ \E id \in RequestIds : SendResolves(id)
    \/ \E id \in RequestIds : SendFails(id)
    \/ \E id \in RequestIds : ReceiveResponse(id)
    \/ \E id \in RequestIds : RequestTimeout(id)
    \/ \E eventName \in EventNames, cb \in Callbacks : Subscribe(eventName, cb)
    \/ \E eventName \in EventNames, cb \in Callbacks : Unsubscribe(eventName, cb)
    \/ \E eventName \in EventNames : ReceiveEvent(eventName)

\* The BFT module does not read the accumulator: the digest tags are fixed.
Init == TreeStart /\ digestTag = {} /\ BFTStart /\ PoolStart /\ HostStart

Next ==
    \/ /\ NextHeight(bftVotes) <= MaxHeight
       /\ \E input \in ParameterInputs : SetBFTParameters(input[1], input[2], input[3])
    \/ /\ bftRet = Idle
       /\ \E aggregateCommit \in AggregateCommits(chain) :
             CallVerifyAggregateCommit(aggregateCommit)
    \/ CallGetBFTHeights
    \/ \E prevoted \in Heights, precommitted \in Heights : ExecuteBlock(prevoted, precommitted)
    \/ FinalizeCertificate
    \/ Return

Spec == Init /\ [][Next]_vars

SpecCertificates == Init /\ [][NextCertificates]_vars

SpecChannel == Init /\ [][NextChannel]_vars

SpecHost == Init /\ [][NextHost]_vars

\* The send of an invoke settles and an armed request timeout fires; the bus
\* is not bound to answer.
ChannelFairness ==
    \A id \in RequestIds :
        /\ WF_vars(SendResolves(id) \/ SendFails(id))
        /\ WF_vars(RequestTimeout(id))

SpecChannelLive == SpecChannel /\ ChannelFairness

SpecPool == Init /\ [][NextPool]_vars

\* verifyAggregateCommit suspended at its awaits while blocks are executed,
\* parameters are set and certificates are finalized.
NextInterleaved ==
    \/ /\ bftRet = Idle
       /\ NextHeight(bftVotes) <= MaxHeight + 1
       /\ \E input \in ParameterInputs : SetBFTParameters(input[1], input[2], input[3])
    \/ /\ bftRet = Idle
       /\ verifying = NotVerifying
       /\ \E aggregateCommit \in AggregateCommits(chain) :
             VerifyAggregateCommitBegin(aggregateCommit)
    \/ VerifyAggregateCommitLookup
    \/ VerifyAggregateCommitHeader
    \/ VerifyAggregateCommitParameters
    \/ \E prevoted \in Heights, precommitted \in Heights : ExecuteBlock(prevoted, precommitted)
    \/ FinalizeCertificate
    \/ Return

SpecInterleaved == Init /\ [][NextInterleaved]_vars

\* The same machine with a store that may fail under the lookup of step 5.
NextFaults ==
    \/ /\ NextHeight(bftVotes) <= MaxHeight
       /\ \E input \in ParameterInputs : SetBFTParameters(input[1], input[2], input[3])
    \/ /\ bftRet = Idle
       /\ \E aggregateCommit \in AggregateCommits(chain), storeFails \in BOOLEAN :
             CallVerifyAggregateCommitWithLookup(aggregateCommit, storeFails)
    \/ \E prevoted \in Heights, precommitted \in Heights : ExecuteBlock(prevoted, precommitted)
    \/ FinalizeCertificate
    \/ Return

SpecFaults == Init /\ [][NextFaults]_vars

\* Inputs of setBFTParameters for the threshold checks: every list of at most
\* BatchSize validators with distinct addresses and weights 0..MaxWeight, one
\* list that is too long, and every threshold from 0 to one above the largest
\* aggregate weight.
Thresholds == 0..(BatchSize * MaxWeight + 1)

ValidatorLists ==
    LET entries == {Validator(a, w) : a \in Addresses, w \in 0..MaxWeight}
    IN  {list \in SeqsUpTo(entries, BatchSize) :
            \A i, j \in 1..Len(list) : list[i].address = list[j].address => i = j}
        \cup {<<Validator(1, 1), Validator(2, 1), Validator(1, 1)>>}

ParamsInit == TreeStart /\ digestTag = {} /\ BFTStart /\ PoolStart /\ HostStart

\* The first parameter entry of a ledger.
NextParams ==
    \/ /\ bftRet = Idle
       /\ paramsStore = <<>>
       /\ \E precommitThreshold \in Thresholds, certificateThreshold \in Thresholds,
             validators \in ValidatorLists :
               SetBFTParameters(precommitThreshold, certificateThreshold, validators)
    \/ Return

SpecParams == ParamsInit /\ [][NextParams]_vars

\* Parameters set with any list of unit weights that fits the batch, lists
\* that name an address twice included, on a chain that grows.
RepeatingValidatorLists ==
    SeqsUpTo({Validator(a, 1) : a \in Addresses}, BatchSize)

NextRepeating ==
    \/ /\ bftRet = Idle
       /\ NextHeight(bftVotes) <= MaxHeight
       /\ \E threshold \in Thresholds, validators \in RepeatingValidatorLists :
               SetBFTParameters(threshold, threshold, validators)
    \/ \E prevoted \in Heights, precommitted \in Heights : ExecuteBlock(prevoted, precommitted)
    \/ Return

SpecRepeating == Init /\ [][NextRepeating]_vars

\* The DPoS module at the end of its rounds: the snapshot of two rounds ago
\* names any list of distinct delegates that fits the batch.
ActiveDelegateLists ==
    {list \in SeqsUpTo(Addresses, BatchSize) :
        Len(list) > 0 /\ \A i, j \in 1..Len(list) : list[i] = list[j] => i = j}

BftThresholds == 1..BatchSize

NextDPoS ==
    \/ /\ bftRet = Idle
       /\ NextHeight(bftVotes) <= MaxHeight
       /\ \E input \in ParameterInputs : SetBFTParameters(input[1], input[2], input[3])
    \/ \E prevoted \in Heights, precommitted \in Heights : ExecuteBlock(prevoted, precommitted)
    \/ /\ bftRet = Idle
       /\ \E activeDelegates \in ActiveDelegateLists, bftThreshold \in BftThresholds :
               AfterBlockExecute(activeDelegates, bftThreshold)
    \/ Return

SpecDPoS == Init /\ [][NextDPoS]_vars

TreeInit == TreeStart /\ BFTStart /\ PoolStart /\ HostStart

NextTree ==
    \/ \E initValues \in SeqsUpTo(LeafValues, MaxInitLeaves) : TreeNew(initValues)
    \/ \E value \in LeafValues : TreeAppend(value)
    \/ TreeClear

SpecTree == TreeInit /\ [][NextTree]_vars

\* Construction alone, on longer lists: every new MerkleTree(initValues) is a
\* fresh object, so each construction starts from the empty tree.
NextBuild ==
    \/ /\ width = 0
       /\ \E initValues \in SeqsUpTo(LeafValues, MaxBuildLeaves) : TreeNew(initValues)
    \/ TreeClear

SpecBuild == Init /\ [][NextBuild]_vars

\* The accumulator with its node lookup: getNode is asked for the digests in
\* the arena and for digests of leaves and branches that may not be in it.
NodeHashes ==
    {EMPTY_HASH} \cup {LeafHash(v) : v \in LeafValues}
                 \cup {BranchHash(LeafHash(a), LeafHash(b)) : a, b \in LeafValues}

NextNodes ==
    \/ /\ width = 0
       /\ \E initValues \in SeqsUpTo(LeafValues, MaxInitLeaves) : TreeNew(initValues)
    \/ \E value \in LeafValues : TreeAppend(value)
    \/ TreeClear
    \/ \E hash \in NodeHashes \cup DOMAIN hashToBuffer : TreeGetNode(hash)

SpecNodes == TreeInit /\ [][NextNodes]_vars

\* The parameter store and its queries: parameter changes, block execution
\* and the three reads, at every height up to one above the highest block.
QueryHeights == 0..(MaxHeight + 1)

QueriesInit == TreeStart /\ digestTag = {} /\ BFTStart /\ PoolStart /\ HostStart

NextQueries ==
    \/ /\ NextHeight(bftVotes) <= MaxHeight
       /\ \E input \in ParameterInputs : SetBFTParameters(input[1], input[2], input[3])
    \/ \E prevoted \in Heights, precommitted \in Heights : ExecuteBlock(prevoted, precommitted)
    \/ \E height \in QueryHeights : CallGetBFTParameters(height)
    \/ \E height \in QueryHeights : CallGetNextHeightBFTParameters(height)
    \/ CallGetCurrentValidators
    \/ Return

SpecQueries == QueriesInit /\ [][NextQueries]_vars

\* Headers handed to the header queries: either generator, heights up to one
\* above the highest block, back-references that may point forward.
Generators == {1, 2}

QueryHeaders ==
    {BFTHeader(g, h, mhg, mhp) :
        g \in Generators, h \in 0..(MaxHeight + 1),
        mhg \in 0..(MaxHeight + 1), mhp \in Heights}

HeadersInit == TreeStart /\ digestTag = {} /\ BFTStart /\ PoolStart /\ HostStart

\* areHeadersContradicting reads no state: it is applied to every pair of
\* headers on the ledger as it is after genesis.
NextHeaders ==
    \/ \E g \in Generators, mhg \in Heights, mhp \in Heights : RecordBlock(g, mhg, mhp)
    \/ /\ bftRet = Idle
       /\ bftVotes.blockBFTInfos = <<>>
       /\ \E bftHeader1 \in QueryHeaders, bftHeader2 \in QueryHeaders :
             CallAreHeadersContradicting(bftHeader1, bftHeader2)
    \/ /\ bftRet = Idle
       /\ \E header \in QueryHeaders : CallIsHeaderContradictingChain(header)
    \/ /\ bftRet = Idle
       /\ \E header \in QueryHeaders : CallImpliesMaximalPrevotes(header)
    \/ Return

SpecHeaders == HeadersInit /\ [][NextHeaders]_vars

(***************************************************************************)
(* Claims about the accumulator                                            *)
(***************************************************************************)
\* C1: batch build equals sequential append: whenever append has been called
\* on a tree holding the leaf sequence L (the empty and the one-leaf sequence
\* included) with payload x, it returns the root of new MerkleTree(L ++ <<x>>).
C1_AppendEqualsBuild ==
    treeRet.op = "append" =>
        /\ treeRet.outcome = "returned"
        /\ treeRet.value = RootOf(leaves)

(***************************************************************************)
(* Claims about verifyAggregateCommit                                      *)
(***************************************************************************)
VerifyReturned == bftRet.op = "verifyAggregateCommit"
CommitOf(ret) == ret.aggregateCommit
BitsEmpty(ret) == Len(ret.aggregateCommit.aggregationBits) = 0
SignatureEmpty(ret) == Len(ret.aggregateCommit.certificateSignature) = 0
Accepted(ret) == ret.outcome = "returned" /\ ret.value
Rejected(ret) == ret.outcome = "returned" /\ ~ret.value
InWindow(ret) ==
    /\ bftVotes.maxHeightCertified < ret.aggregateCommit.height
    /\ ret.aggregateCommit.height <= bftVotes.maxHeightPrecommitted
CallsOf(ret) == {ret.calls[i] : i \in 1..Len(ret.calls)}

\* Steps 1-4 let the commit through: it is not the empty commit at the
\* certified height, has bits and signature, and lies in the window.
PassesSteps1To4(ret) == ~BitsEmpty(ret) /\ ~SignatureEmpty(ret) /\ InWindow(ret)

\* Some parameter entry takes effect after maxHeightCertified + 1 and at or
\* before the commit's height.
ExpiresBefore(ret) ==
    \E n \in DOMAIN paramsStore :
        bftVotes.maxHeightCertified + 1 < n /\ n <= ret.aggregateCommit.height

\* C2: verifyAggregateCommit returns true only for (a) the empty commit at
\* maxHeightCertified or (b) a commit with bits and signature whose height is
\* above maxHeightCertified and at most maxHeightPrecommitted; a commit below
\* maxHeightCertified is rejected whatever it carries.
C2_AcceptOnlyEmptyOrInWindow ==
    VerifyReturned =>
        /\ Accepted(bftRet) =>
              \/ /\ BitsEmpty(bftRet) /\ SignatureEmpty(bftRet)
                 /\ CommitOf(bftRet).height = bftVotes.maxHeightCertified
              \/ /\ ~BitsEmpty(bftRet) /\ ~SignatureEmpty(bftRet)
                 /\ InWindow(bftRet)
        /\ CommitOf(bftRet).height < bftVotes.maxHeightCertified => Rejected(bftRet)

C2_Witness ==
    /\ VerifyReturned /\ Accepted(bftRet)
    /\ ~BitsEmpty(bftRet) /\ ~SignatureEmpty(bftRet)
    /\ bftVotes.maxHeightCertified > 0

\* C3: the commit with empty bits and empty signature at maxHeightCertified
\* is accepted after the heights have been read and nothing else.
C3_EmptyCommitAtCertifiedAccepted ==
    (/\ VerifyReturned
     /\ BitsEmpty(bftRet) /\ SignatureEmpty(bftRet)
     /\ CommitOf(bftRet).height = bftVotes.maxHeightCertified)
    => /\ Accepted(bftRet)
       /\ bftRet.calls = <<"getBFTHeights">>

C3_Witness ==
    /\ VerifyReturned /\ Accepted(bftRet)
    /\ BitsEmpty(bftRet) /\ SignatureEmpty(bftRet)
    /\ bftVotes.maxHeightCertified > 0
    /\ ~HasBlockHeader(chain, bftVotes.maxHeightCertified + 1)

\* C4: a non-empty commit in the window is rejected when a parameter entry
\* takes effect after maxHeightCertified + 1 and at or before its height; an
\* accepted one is verified under the entry in force at maxHeightCertified + 1;
\* without any later entry the commit goes on to step 6.
C4_RejectedWhenParametersExpire ==
    (VerifyReturned /\ PassesSteps1To4(bftRet)) =>
        /\ ExpiresBefore(bftRet) => Rejected(bftRet)
        /\ Accepted(bftRet) =>
              BFTParametersKey(paramsStore, CommitOf(bftRet).height)
                  = BFTParametersKey(paramsStore, bftVotes.maxHeightCertified + 1)
        /\ (\A n \in DOMAIN paramsStore : n <= bftVotes.maxHeightCertified + 1)
              => "getBlockHeaderByHeight" \in CallsOf(bftRet)

C4_Witness ==
    /\ VerifyReturned /\ PassesSteps1To4(bftRet) /\ ExpiresBefore(bftRet)
    /\ Rejected(bftRet)
    /\ CommitOf(bftRet).certificateSignature[1] = BlsKeys

C4_WitnessAccepted ==
    /\ VerifyReturned /\ PassesSteps1To4(bftRet) /\ Accepted(bftRet)
    /\ CommitOf(bftRet).height > bftVotes.maxHeightCertified + 1

\* C5: when steps 1-5 pass, the result is that of
\* verifyAggregateCertificateSignature on the certificate of the block header at
\* the commit's height with the commit's bits and signature attached, the keys
\* and weights of the validators in force at that height in ascending key
\* order, and that entry's certificateThreshold.
Injections(n) == {f \in [1..n -> 1..n] : \A i, j \in 1..n : f[i] = f[j] => i = j}

AscendingByKey(validators) ==
    LET n == Len(validators)
        entry(i) == [blsKey |-> GetValidatorAccount(validators[i].address).blsKey,
                     weight |-> validators[i].bftWeight]
    IN  {[i \in 1..n |-> entry(f[i])] : f \in
            {g \in Injections(n) :
                \A i, j \in 1..n : i < j => entry(g[i]).blsKey <= entry(g[j]).blsKey}}

ExpectedVerdicts(ret) ==
    LET header == GetBlockHeaderByHeight(chain, ret.aggregateCommit.height)
        entry == GetBFTParameters(paramsStore, ret.aggregateCommit.height).value
        certificate == [ComputeCertificateFromBlockHeader(header).value EXCEPT
                           !.aggregationBits = Some(ret.aggregateCommit.aggregationBits),
                           !.signature = Some(ret.aggregateCommit.certificateSignature)]
    IN  {VerifyAggregateCertificateSignature(
             [i \in 1..Len(s) |-> s[i].blsKey], [i \in 1..Len(s) |-> s[i].weight],
             entry.certificateThreshold, NetworkIdentifier, certificate) :
         s \in AscendingByKey(entry.validators)}

C5_ResultIsSignatureVerdict ==
    (/\ VerifyReturned /\ PassesSteps1To4(bftRet) /\ ~ExpiresBefore(bftRet)
     /\ GetBFTParameters(paramsStore, CommitOf(bftRet).height).found)
    => /\ bftRet.outcome = "returned"
       /\ bftRet.value \in ExpectedVerdicts(bftRet)

C5_Witness ==
    /\ VerifyReturned /\ PassesSteps1To4(bftRet) /\ ~ExpiresBefore(bftRet)
    /\ Accepted(bftRet)
    /\ CommitOf(bftRet).aggregationBits = <<0, 1>>
    /\ Len(GetBFTParameters(paramsStore, CommitOf(bftRet).height).value.validators) = 2

\* C6: the gates run in order and stop at the first that decides: the
\* next-parameters lookup happens only after steps 1-4 passed, the reads and the
\* verification of step 6 only after steps 1-5 passed, each in program order.
Step6Calls == {"getBlockHeaderByHeight", "getBFTParameters", "getValidatorAccount",
               "verifyAggregateCertificateSignature"}

CallRank(call) ==
    CASE call = "getBFTHeights" -> 1
      [] call = "getNextHeightBFTParameters" -> 2
      [] call = "getBlockHeaderByHeight" -> 3
      [] call = "getBFTParameters" -> 4
      [] call = "getValidatorAccount" -> 5
      [] call = "verifyAggregateCertificateSignature" -> 6

C6_GatesInOrder ==
    VerifyReturned =>
        /\ bftRet.calls[1] = "getBFTHeights"
        /\ \A i, j \in 1..Len(bftRet.calls) :
              i < j => CallRank(bftRet.calls[i]) <= CallRank(bftRet.calls[j])
        /\ "getNextHeightBFTParameters" \in CallsOf(bftRet) <=> PassesSteps1To4(bftRet)
        /\ "getBlockHeaderByHeight" \in CallsOf(bftRet)
              <=> (PassesSteps1To4(bftRet) /\ ~ExpiresBefore(bftRet))
        /\ CallsOf(bftRet) \cap Step6Calls # {} => "getBlockHeaderByHeight" \in CallsOf(bftRet)

C6_Witness ==
    /\ VerifyReturned
    /\ bftRet.calls = <<"getBFTHeights", "getNextHeightBFTParameters",
                        "getBlockHeaderByHeight", "getBFTParameters",
                        "getValidatorAccount", "getValidatorAccount",
                        "verifyAggregateCertificateSignature">>
    /\ Rejected(bftRet)

(***************************************************************************)
(* Claims about setBFTParameters                                           *)
(***************************************************************************)
SetReturned == bftRet.op = "setBFTParameters"

PassesSizeAndWeight(ret) ==
    /\ Len(ret.validators) <= BatchSize
    /\ \A i \in 1..Len(ret.validators) : ret.validators[i].bftWeight > 0

InThresholdRange(aggregateWeight, threshold) ==
    (aggregateWeight \div 3) + 1 <= threshold /\ threshold <= aggregateWeight

\* C7: for a list that passes the size and weight checks and weighs W,
\* setBFTParameters rejects precommitThreshold exactly when it lies outside
\* [floor(W/3)+1, W], and likewise certificateThreshold, each on its own; with
\* both in range (and every account known) the call succeeds.
C7_ThresholdBounds ==
    (SetReturned /\ PassesSizeAndWeight(bftRet)) =>
        LET W == AggregateBFTWeight(bftRet.validators)
            preOk == InThresholdRange(W, bftRet.precommitThreshold)
            certOk == InThresholdRange(W, bftRet.certificateThreshold)
        IN  /\ bftRet.error = "Invalid precommitThreshold input" <=> ~preOk
            /\ bftRet.error = "Invalid certificateThreshold input" <=> (preOk /\ ~certOk)
            /\ (preOk /\ certOk /\ AllAccountsKnown(bftRet.validators))
                  <=> bftRet.outcome = "returned"

C7_Witness ==
    /\ SetReturned /\ PassesSizeAndWeight(bftRet)
    /\ bftRet.outcome = "returned"
    /\ AggregateBFTWeight(bftRet.validators) >= 3
    /\ bftRet.precommitThreshold = (AggregateBFTWeight(bftRet.validators) \div 3) + 1
    /\ bftRet.certificateThreshold = AggregateBFTWeight(bftRet.validators)

\* C8: a setBFTParameters call that fails leaves the parameter store and the
\* votes record as they were, and the newest parameter entry always lists the
\* validators that activeValidatorsVoteInfo lists.
AddressesOf(list) == [i \in 1..Len(list) |-> list[i].address]

NewestEntryMatchesVotes ==
    IF DOMAIN paramsStore = {}
    THEN bftVotes.activeValidatorsVoteInfo = <<>>
    ELSE LET newest == CHOOSE n \in DOMAIN paramsStore : \A m \in DOMAIN paramsStore : m <= n
         IN  AddressesOf(paramsStore[newest].validators)
                 = AddressesOf(bftVotes.activeValidatorsVoteInfo)

C8_FailedCallWritesNothing ==
    /\ []NewestEntryMatchesVotes
    /\ [][(bftRet'.op = "setBFTParameters" /\ bftRet'.outcome = "threw")
             => (paramsStore' = paramsStore /\ bftVotes' = bftVotes)]_vars

C8_Witness ==
    /\ SetReturned
    /\ bftRet.error = "getValidatorAccount failed"
    /\ DOMAIN paramsStore # {}
    /\ Len(bftVotes.activeValidatorsVoteInfo) = 2

(***************************************************************************)
(* Claims about the votes record                                           *)
(***************************************************************************)
HeightsOrdered(heights) ==
    /\ heights.maxHeightCertified <= heights.maxHeightPrecommitted
    /\ heights.maxHeightPrecommitted <= heights.maxHeightPrevoted

\* C9: the three heights of the votes record are always ordered
\* (certified <= precommitted <= prevoted), getBFTHeights returns the triple of
\* the record, and setBFTParameters leaves the three heights as they were.
C9_HeightsOrdered ==
    /\ [](/\ HeightsOrdered(bftVotes)
          /\ bftRet.op = "getBFTHeights" =>
                /\ HeightsOrdered(bftRet.value)
                /\ bftRet.value.maxHeightCertified = bftVotes.maxHeightCertified
                /\ bftRet.value.maxHeightPrecommitted = bftVotes.maxHeightPrecommitted
                /\ bftRet.value.maxHeightPrevoted = bftVotes.maxHeightPrevoted)
    /\ [][bftRet'.op = "setBFTParameters" =>
             GetBFTHeights(bftVotes') = GetBFTHeights(bftVotes)]_vars

C9_Witness ==
    /\ bftRet.op = "getBFTHeights"
    /\ bftRet.value.maxHeightCertified = 1
    /\ bftRet.value.maxHeightPrecommitted = 2
    /\ Len(bftVotes.activeValidatorsVoteInfo) = 2

\* C10: maxHeightCertified never decreases, whatever calls of
\* verifyAggregateCommit and other BFT operations take place.
C10_CertifiedNeverDecreases ==
    [][bftVotes'.maxHeightCertified >= bftVotes.maxHeightCertified]_vars

C10_Witness ==
    /\ bftVotes.maxHeightCertified = MaxHeight
    /\ VerifyReturned /\ Rejected(bftRet)
    /\ CommitOf(bftRet).height < bftVotes.maxHeightCertified
    /\ ~BitsEmpty(bftRet) /\ ~SignatureEmpty(bftRet)

RecordedInLedger(header) ==
    \E i \in 1..Len(bftVotes.blockBFTInfos) :
        LET info == bftVotes.blockBFTInfos[i]
        IN  /\ info.generatorAddress = header.generatorAddress
            /\ info.height = header.height
            /\ info.maxHeightGenerated = header.maxHeightGenerated
            /\ info.maxHeightPrevoted = header.maxHeightPrevoted

\* C12: isHeaderContradictingChain returns false for a header that is itself
\* a block recorded in the ledger.
C12_RecordedBlockNeverContradicts ==
    (bftRet.op = "isHeaderContradictingChain" /\ RecordedInLedger(bftRet.header))
        => ~bftRet.value

\* C13: isHeaderContradictingChain returns false when no stored block info
\* has the header's generator, and otherwise the contradiction-rule result
\* against the most recent stored block info of that generator, whatever older
\* entries of the generator say; the ledger is not modified.
MostRecentOfGenerator(generatorAddress) ==
    LET own == {i \in 1..Len(bftVotes.blockBFTInfos) :
                   bftVotes.blockBFTInfos[i].generatorAddress = generatorAddress}
    IN  bftVotes.blockBFTInfos[
            CHOOSE i \in own : \A j \in own :
                bftVotes.blockBFTInfos[j].height <= bftVotes.blockBFTInfos[i].height]

HasBlockOfGenerator(generatorAddress) ==
    \E i \in 1..Len(bftVotes.blockBFTInfos) :
        bftVotes.blockBFTInfos[i].generatorAddress = generatorAddress

C13_ChainCheckUsesMostRecent ==
    /\ [](bftRet.op = "isHeaderContradictingChain" =>
            IF HasBlockOfGenerator(bftRet.header.generatorAddress)
            THEN bftRet.value = areDistinctHeadersContradicting(
                                    MostRecentOfGenerator(bftRet.header.generatorAddress),
                                    bftRet.header)
            ELSE ~bftRet.value)
    /\ [][bftRet'.op = "isHeaderContradictingChain" => bftVotes' = bftVotes]_vars

C13_Witness ==
    /\ bftRet.op = "isHeaderContradictingChain"
    /\ Len(bftVotes.blockBFTInfos) = 2
    /\ bftVotes.blockBFTInfos[1].generatorAddress = bftRet.header.generatorAddress
    /\ bftVotes.blockBFTInfos[2].generatorAddress = bftRet.header.generatorAddress
    /\ areDistinctHeadersContradicting(bftVotes.blockBFTInfos[2], bftRet.header)
    /\ ~bftRet.value

\* C14: on every ledger, the empty one included, impliesMaximalPrevotes
\* returns a boolean; it is true iff the header's height is the latest
\* recorded height plus one, its maxHeightGenerated is below its height, and
\* either the recorded window does not reach back to maxHeightGenerated or the
\* block recorded at that height has the header's generator.
C14_ImpliesMaximalPrevotes ==
    bftRet.op = "impliesMaximalPrevotes" =>
        /\ bftRet.outcome = "returned"
        /\ Len(bftVotes.blockBFTInfos) > 0 =>
              LET latest == bftVotes.blockBFTInfos[1].height
                  header == bftRet.header
              IN  bftRet.value <=>
                    /\ header.height = latest + 1
                    /\ header.maxHeightGenerated < header.height
                    /\ \/ latest - header.maxHeightGenerated >= Len(bftVotes.blockBFTInfos)
                       \/ \E i \in 1..Len(bftVotes.blockBFTInfos) :
                             /\ bftVotes.blockBFTInfos[i].height = header.maxHeightGenerated
                             /\ bftVotes.blockBFTInfos[i].generatorAddress
                                    = header.generatorAddress

(***************************************************************************)
(* Claims about the parameter store                                        *)
(***************************************************************************)
EntriesAtOrBelow(height) == {k \in DOMAIN paramsStore : k <= height}
EntriesAbove(height) == {k \in DOMAIN paramsStore : k > height}
Greatest(keys) == CHOOSE k \in keys : \A j \in keys : j <= k
Smallest(keys) == CHOOSE k \in keys : \A j \in keys : k <= j

\* C15: getBFTParameters(H) returns the stored entry with the greatest
\* effective height at or below H, and fails with BFTParameterNotFoundError iff
\* no entry has an effective height at or below H.
C15_GetBFTParametersLatestAtOrBelow ==
    bftRet.op = "getBFTParameters" =>
        IF EntriesAtOrBelow(bftRet.height) = {}
        THEN bftRet.outcome = "threw" /\ bftRet.error = "BFTParameterNotFoundError"
        ELSE /\ bftRet.outcome = "returned"
             /\ bftRet.value = paramsStore[Greatest(EntriesAtOrBelow(bftRet.height))]

C15_Witness ==
    /\ bftRet.op = "getBFTParameters" /\ bftRet.outcome = "returned"
    /\ bftRet.height = 2
    /\ DOMAIN paramsStore = {0, 2}
    /\ paramsStore[0] # paramsStore[2]
    /\ bftRet.value = paramsStore[2]

\* C16: getNextHeightBFTParameters(H) returns the smallest effective height
\* strictly above H (never H itself) and fails with BFTParameterNotFoundError
\* iff no entry has an effective height above H.
C16_NextHeightStrictlyAbove ==
    bftRet.op = "getNextHeightBFTParameters" =>
        IF EntriesAbove(bftRet.height) = {}
        THEN bftRet.outcome = "threw" /\ bftRet.error = "BFTParameterNotFoundError"
        ELSE /\ bftRet.outcome = "returned"
             /\ bftRet.value = Smallest(EntriesAbove(bftRet.height))
             /\ bftRet.value > bftRet.height

C16_Witness ==
    /\ bftRet.op = "getNextHeightBFTParameters" /\ bftRet.outcome = "returned"
    /\ bftRet.height = 0
    /\ 0 \in DOMAIN paramsStore
    /\ bftRet.value = 2

\* The effective height the claim gives to an entry written on `votes`.
EffectiveHeight(votes) ==
    IF Len(votes.blockBFTInfos) > 0
    THEN votes.blockBFTInfos[1].height + 1
    ELSE votes.maxHeightPrevoted

SetSucceeds == bftRet'.op = "setBFTParameters" /\ bftRet'.outcome = "returned"

\* C17: a successful setBFTParameters writes the entry at the height of the
\* latest recorded block plus one (at maxHeightPrevoted when no block is
\* recorded), leaves the other entries alone, and getBFTParameters at that
\* height then returns the entry written.
C17_EntryWrittenAtEffectiveHeight ==
    [][SetSucceeds =>
          LET key == EffectiveHeight(bftVotes)
          IN  /\ DOMAIN paramsStore' = DOMAIN paramsStore \cup {key}
              /\ \A k \in DOMAIN paramsStore \ {key} : paramsStore'[k] = paramsStore[k]
              /\ paramsStore'[key].precommitThreshold = bftRet'.precommitThreshold
              /\ paramsStore'[key].certificateThreshold = bftRet'.certificateThreshold
              /\ {paramsStore'[key].validators[i] : i \in 1..Len(paramsStore'[key].validators)}
                    = {bftRet'.validators[i] : i \in 1..Len(bftRet'.validators)}
              /\ GetBFTParameters(paramsStore', key)
                    = [found |-> TRUE, value |-> paramsStore'[key]]]_vars

C17_Witness ==
    /\ bftRet.op = "setBFTParameters" /\ bftRet.outcome = "returned"
    /\ Len(bftVotes.blockBFTInfos) = 1
    /\ DOMAIN paramsStore = {0, 2}
    /\ paramsStore[2].certificateThreshold = bftRet.certificateThreshold
    /\ paramsStore[0] # paramsStore[2]

\* C18: after a successful setBFTParameters, activeValidatorsVoteInfo lists
\* exactly the addresses of the new validators, sorted by address; an address
\* that was active keeps its vote info, a new one starts at the effective
\* height with largestHeightPrecommit one below it.
C18_ActiveValidatorsRewritten ==
    [][SetSucceeds =>
          LET nextHeight == EffectiveHeight(bftVotes)
              old == bftVotes.activeValidatorsVoteInfo
              new == bftVotes'.activeValidatorsVoteInfo
              input == bftRet'.validators
          IN  /\ Len(new) = Len(input)
              /\ {new[i].address : i \in 1..Len(new)}
                    = {input[i].address : i \in 1..Len(input)}
              /\ \A i, j \in 1..Len(new) : i < j => new[i].address < new[j].address
              /\ \A i \in 1..Len(new) :
                    IF \E j \in 1..Len(old) : old[j].address = new[i].address
                    THEN \E j \in 1..Len(old) : old[j] = new[i]
                    ELSE new[i] = [address |-> new[i].address,
                                   minActiveHeight |-> nextHeight,
                                   largestHeightPrecommit |-> nextHeight - 1]]_vars

C18_Witness ==
    /\ bftRet.op = "setBFTParameters" /\ bftRet.outcome = "returned"
    /\ Len(bftVotes.activeValidatorsVoteInfo) = 2
    /\ bftVotes.activeValidatorsVoteInfo[1].minActiveHeight = 0
    /\ bftVotes.activeValidatorsVoteInfo[2].minActiveHeight = 2
    /\ bftVotes.activeValidatorsVoteInfo[2].largestHeightPrecommit = 1

\* C19: for the same thresholds, every permutation of the validators list
\* (validators with distinct addresses) gives the validatorsHash and the stored
\* entry that the call made has given.
Permuted(list) ==
    {[i \in 1..Len(list) |-> list[f[i]]] : f \in Injections(Len(list))}

C19_PermutationSameEntry ==
    (SetReturned /\ bftRet.outcome = "returned") =>
        LET entry == paramsStore[Greatest(DOMAIN paramsStore)]
        IN  \A validators \in Permuted(bftRet.validators) :
               /\ ComputeValidatorsHash(validators, bftRet.certificateThreshold)
                      = entry.validatorsHash
               /\ BFTParams(bftRet.precommitThreshold, bftRet.certificateThreshold,
                            validators) = entry

C19_Witness ==
    /\ SetReturned /\ bftRet.outcome = "returned"
    /\ Len(bftRet.validators) = 2
    /\ bftRet.validators[1].address > bftRet.validators[2].address
    /\ bftRet.validators[1].bftWeight # bftRet.validators[2].bftWeight
    /\ paramsStore[0].validators # bftRet.validators

\* C20: getCurrentValidators returns the validators of the entry in force at
\* the height of the latest recorded block and fails when no block is
\* recorded; writing parameters does not change what it returns.
C20_CurrentValidatorsAtLatestBlock ==
    /\ [](bftRet.op = "getCurrentValidators" =>
            IF Len(bftVotes.blockBFTInfos) = 0
            THEN bftRet.outcome = "threw"
            ELSE LET below == EntriesAtOrBelow(bftVotes.blockBFTInfos[1].height)
                 IN  IF below = {} THEN bftRet.outcome = "threw"
                     ELSE /\ bftRet.outcome = "returned"
                          /\ bftRet.value = paramsStore[Greatest(below)].validators)
    /\ [][bftRet'.op = "setBFTParameters" =>
             GetCurrentValidators(bftVotes', paramsStore')
                 = GetCurrentValidators(bftVotes, paramsStore)]_vars

C20_Witness ==
    /\ bftRet.op = "getCurrentValidators" /\ bftRet.outcome = "returned"
    /\ bftVotes.blockBFTInfos[1].height = 1
    /\ DOMAIN paramsStore = {0, 2}
    /\ paramsStore[0].validators # paramsStore[2].validators
    /\ bftRet.value = paramsStore[0].validators

(***************************************************************************)
(* Claims about the accumulator's bookkeeping.                             *)
(***************************************************************************)

\* C21: the width equals the number of leaves committed: after
\* new MerkleTree(L) the width is the length of L, and each successful append
\* increases it by exactly one, so the height append works with is
\* ceil(log2(number of leaves)) + 1.
C21_WidthIsLeafCount == (treeRet.outcome = "returned" /\ treeRet.op \in {"new", "append"}) => (width = Len(leaves) /\ (width > 0 => GetHeight(width) = CeilLog2(Len(leaves)) + 1))

\* C22: new MerkleTree([]) has root EMPTY_HASH, width 0 and no nodes, and
\* after clear(), whatever constructions and appends came before, the tree is
\* in exactly that state again: no digest stored earlier is in the arena that
\* getNode reads.
C22_EmptyTree == (treeRet.op = "clear" \/ (treeRet.op = "new" /\ leaves = <<>>)) => (root = EMPTY_HASH /\ width = 0 /\ hashToBuffer = <<>> /\ \A v \in LeafValues : ~NodeKnown(hashToBuffer, LeafHash(v)))

C22_Witness == treeRet.op = "clear" /\ width = 0 /\ root = EMPTY_HASH

\* C23: with a collision-free hash, two leaf lists of the same length that
\* differ in exactly one position have different roots under
\* new MerkleTree, whatever the length and the position (the orphan leaf of an
\* odd-sized layer included).
C23_OneLeafChangesRoot == (treeRet.op = "new" /\ Len(leaves) > 0) => \A i \in 1..Len(leaves) : \A v \in LeafValues \ {leaves[i]} : RootOf([leaves EXCEPT ![i] = v]) # root

C23_Witness == treeRet.op = "new" /\ Len(leaves) = 5 /\ root = RootOf(leaves) /\ RootOf([leaves EXCEPT ![5] = 2]) # root /\ leaves[5] = 1

(***************************************************************************)
(* Claims about the commit pool's error handling and the certificate       *)
(* utilities.                                                              *)
(***************************************************************************)

\* C24: in step 5 of verifyAggregateCommit only the not-found outcome of the
\* next-parameters lookup means "no constraint"; when the lookup fails on the
\* store, the call throws there and consults nothing further.
C24_StoreFailureSurfaces == (bftRet.op = "verifyAggregateCommit" /\ bftRet.lookup = "storeError") => (bftRet.outcome = "threw" /\ bftRet.calls = <<"getBFTHeights", "getNextHeightBFTParameters">>)

\* C25: computeCertificateFromBlockHeader throws when the header's stateRoot
\* or validatorsHash is absent; otherwise it returns exactly blockID =
\* header.id, height, stateRoot, timestamp and validatorsHash, with neither
\* aggregationBits nor signature, and a second call on the same header
\* returns an equal certificate.
C25_CertificateFromHeader == bftRet.op = "computeCertificateFromBlockHeader" => LET header == bftRet.blockHeader IN IF ~Defined(header.stateRoot) \/ ~Defined(header.validatorsHash) THEN bftRet.outcome = "threw" ELSE (bftRet.outcome = "returned" /\ bftRet.value = [blockID |-> header.id, height |-> header.height, stateRoot |-> header.stateRoot, timestamp |-> header.timestamp, validatorsHash |-> header.validatorsHash, aggregationBits |-> Undefined, signature |-> Undefined] /\ ComputeCertificateFromBlockHeader(header).value = bftRet.value)

C25_Witness == bftRet.op = "computeCertificateFromBlockHeader" /\ bftRet.outcome = "returned" /\ bftRet.blockHeader.height = 1 /\ bftRet.value.blockID = <<"block", 1>>

C25_WitnessAbsent == bftRet.op = "computeCertificateFromBlockHeader" /\ bftRet.outcome = "threw" /\ Defined(bftRet.blockHeader.stateRoot) /\ ~Defined(bftRet.blockHeader.validatorsHash)

\* Two certificates that differ at most in aggregationBits and signature.
SameSignedFields(c, d) == c.blockID = d.blockID /\ c.height = d.height /\ c.timestamp = d.timestamp /\ c.stateRoot = d.stateRoot /\ c.validatorsHash = d.validatorsHash

\* C26: verifyAggregateCertificateSignature returns false without calling the
\* signature primitive when the certificate lacks aggregationBits or
\* signature; otherwise the primitive is called on the encoding of exactly
\* (blockID, height, timestamp, stateRoot, validatorsHash), so certificates
\* that differ only in aggregationBits or signature are verified against the
\* same message.
C26_SignedFields == bftRet.op = "verifyAggregateCertificateSignature" => LET c == bftRet.certificate IN IF ~Defined(c.aggregationBits) \/ ~Defined(c.signature) THEN (bftRet.value = FALSE /\ bftRet.primitive = <<>>) ELSE (Len(bftRet.primitive) = 1 /\ bftRet.primitive[1].message = [blockID |-> c.blockID, height |-> c.height, timestamp |-> c.timestamp, stateRoot |-> c.stateRoot, validatorsHash |-> c.validatorsHash] /\ \A d \in Certificates : (SameSignedFields(c, d) /\ Defined(d.aggregationBits) /\ Defined(d.signature)) => WeightedAggSigArguments(NetworkIdentifier, d)[1].message = bftRet.primitive[1].message)

C26_Witness == bftRet.op = "verifyAggregateCertificateSignature" /\ bftRet.value /\ Len(bftRet.primitive) = 1 /\ bftRet.certificate.height = 1

C26_WitnessAbsent == bftRet.op = "verifyAggregateCertificateSignature" /\ ~Defined(bftRet.certificate.aggregationBits) /\ Defined(bftRet.certificate.signature) /\ Len(ValueOf(bftRet.certificate.signature)) # 0 /\ ~bftRet.value

\* C27: getSortedWeightsAndValidatorKeys returns the keys in ascending
\* BLS-key order with weights[i] the weight paired with validatorKeys[i] in
\* the input; the output pairs are a permutation of the input pairs, every
\* permutation of an input with distinct keys gives the same output, and the
\* caller's list is as it was.
DistinctKeys(list) == \A i, j \in 1..Len(list) : list[i].blsKey = list[j].blsKey => i = j

C27_SortedPairs ==
    bftRet.op = "getSortedWeightsAndValidatorKeys" =>
        LET given == bftRet.param
            out == bftRet.value
            n == Len(given)
        IN  /\ Len(out.validatorKeys) = n
            /\ Len(out.weights) = n
            /\ \A i, j \in 1..n : i < j => out.validatorKeys[i] <= out.validatorKeys[j]
            /\ \E f \in Injections(n) :
                   \A k \in 1..n : /\ out.validatorKeys[k] = given[f[k]].blsKey
                                   /\ out.weights[k] = given[f[k]].weight
            /\ DistinctKeys(given) =>
                   \A other \in Permuted(given) : GetSortedWeightsAndValidatorKeys(other) = out
            /\ bftRet.paramAfter = given

C27_Witness == bftRet.op = "getSortedWeightsAndValidatorKeys" /\ Len(bftRet.param) = 3 /\ DistinctKeys(bftRet.param) /\ bftRet.param[1].blsKey > bftRet.param[2].blsKey /\ bftRet.param[1].weight # bftRet.param[2].weight /\ bftRet.value.validatorKeys = <<11, 12, 13>>

\* C28: verifyAggregateCommit decides on one point-in-time view of the BFT
\* state: there is one state of the store, among those current during the
\* call, that gives the heights read first and also the next-parameter height
\* and the parameter entry read later, whatever block execution wrote in
\* between.
ReadsFromView(ret, view) ==
    /\ ret.reads.heights = view.heights
    /\ Defined(ret.reads.next) =>
          ValueOf(ret.reads.next) = GetNextHeightBFTParameters(view.store, view.heights.maxHeightCertified + 1)
    /\ Defined(ret.reads.bftParams) =>
          ValueOf(ret.reads.bftParams) = GetBFTParameters(view.store, ret.aggregateCommit.height)

SignerActiveAt(store, commit) ==
    LET bftParams == GetBFTParameters(store, commit.height)
    IN  /\ bftParams.found
        /\ \E i \in 1..Len(bftParams.value.validators) :
              bftParams.value.validators[i].address = commit.validatorAddress

Eligible(votes, store, commit) ==
    /\ commit.height > votes.maxHeightCertified
    /\ commit.height <= votes.maxHeightPrecommitted
    /\ SignerActiveAt(store, commit)

C29_ValidateCommitWindow == bftRet.op = "validateCommit" => (bftRet.value <=> Eligible(bftVotes, paramsStore, bftRet.commit))

\* C30: after addCommit(commit, height) the commit is among the non-gossiped
\* commits of that height and getCommitsByHeight(height) returns it; the pool
\* never holds two commits of one validator at one height.
HeldAt(commits, commit, height) ==
    /\ height \in DOMAIN commits
    /\ \E i \in 1..Len(commits[height]) : commits[height][i] = commit

OnePerValidator(commits) ==
    \A height \in DOMAIN commits : \A i, j \in 1..Len(commits[height]) :
        commits[height][i].validatorAddress = commits[height][j].validatorAddress => i = j

C30_AddedCommitIsHeld ==
    /\ bftRet.op = "addCommit" =>
          /\ HeldAt(nonGossipedCommits, bftRet.commit, bftRet.height)
          /\ LET returned == GetCommitsByHeight(nonGossipedCommits, bftRet.height)
             IN  \E i \in 1..Len(returned) : returned[i] = bftRet.commit
    /\ OnePerValidator(nonGossipedCommits)
    /\ OnePerValidator(gossipedCommits)

(***************************************************************************)
(* Claims about getNode and append                                         *)
(***************************************************************************)

\* C31: getNode(hash) throws for every hash that is not a key of the node
\* arena (EMPTY_HASH on an empty tree included), and a getNode call leaves the
\* root, the width and the arena as they were.
C31_GetNodeUnknownHash ==
    /\ [](treeRet.op = "getNode" =>
            (~NodeKnown(hashToBuffer, treeRet.hash) <=> treeRet.outcome = "threw"))
    /\ [][treeRet'.op = "getNode" => UNCHANGED <<root, width, hashToBuffer>>]_vars

C31_Witness == treeRet.op = "getNode" /\ treeRet.outcome = "threw" /\ treeRet.hash = EMPTY_HASH /\ root = EMPTY_HASH /\ width = 0

C31_WitnessNonEmpty == treeRet.op = "getNode" /\ treeRet.outcome = "threw" /\ width > 0 /\ treeRet.hash = LeafHash(2)


\* C32: append changes width, root and arena together: when it returns, the
\* width has grown by one and the root is the root it returned; when it
\* throws, width, root and arena are exactly as before the call.
C32_AppendAllOrNothing ==
    [][treeRet'.op = "append" =>
          IF treeRet'.outcome = "returned"
          THEN width' = width + 1 /\ root' = treeRet'.value
          ELSE UNCHANGED <<width, root, hashToBuffer>>]_vars


\* C33: for every branch node stored with layer index l and node index n,
\* getNode of its hash returns layerIndex = l, nodeIndex = n and the left and
\* right child hashes it was built from, also when the branch is the root.
C33_BranchRoundTrip ==
    (treeRet.op = "getNode" /\ treeRet.outcome = "returned" /\ ~isLeafValue(hashToBuffer[treeRet.hash])) =>
        LET stored == hashToBuffer[treeRet.hash]
        IN  /\ treeRet.node.layerIndex = stored.layerIndex
            /\ treeRet.node.nodeIndex = stored.nodeIndex
            /\ treeRet.node.leftHash = stored.left
            /\ treeRet.node.rightHash = stored.right


(***************************************************************************)
(* Claims about what setBFTParameters writes                               *)
(***************************************************************************)

\* C34: a successful setBFTParameters writes exactly one parameter entry, the
\* one keyed by its effective height, and changes only activeValidatorsVoteInfo
\* in the votes record; every entry under another height, blockBFTInfos and
\* the three maximal heights are unchanged, so getBFTParameters(h) answers the
\* same for every h below the effective height.
C34_SetWritesOneEntry ==
    [][(bftRet = Idle /\ bftRet'.op = "setBFTParameters" /\ bftRet'.outcome = "returned") =>
          LET nextHeight == NextHeight(bftVotes)
          IN  /\ DOMAIN paramsStore' = DOMAIN paramsStore \cup {nextHeight}
              /\ \A height \in DOMAIN paramsStore \ {nextHeight} :
                    paramsStore'[height] = paramsStore[height]
              /\ bftVotes'.blockBFTInfos = bftVotes.blockBFTInfos
              /\ bftVotes'.maxHeightPrevoted = bftVotes.maxHeightPrevoted
              /\ bftVotes'.maxHeightPrecommitted = bftVotes.maxHeightPrecommitted
              /\ bftVotes'.maxHeightCertified = bftVotes.maxHeightCertified
              /\ \A h \in 0..(nextHeight - 1) :
                    GetBFTParameters(paramsStore', h) = GetBFTParameters(paramsStore, h)]_vars

C34_Witness ==
    /\ SetReturned
    /\ bftRet.outcome = "returned"
    /\ Cardinality(DOMAIN paramsStore) >= 2
    /\ Len(bftVotes.blockBFTInfos) > 0
    /\ bftVotes.maxHeightPrecommitted > 0


\* C35: after any sequence of successful setBFTParameters calls,
\* activeValidatorsVoteInfo holds at most one entry per validator address and
\* every stored parameter entry lists pairwise distinct addresses, also when
\* the validators handed in repeat an address.
NoRepeatedAddress(list) ==
    \A i, j \in 1..Len(list) : list[i].address = list[j].address => i = j

C35_OneEntryPerValidator ==
    /\ NoRepeatedAddress(bftVotes.activeValidatorsVoteInfo)
    /\ \A height \in DOMAIN paramsStore : NoRepeatedAddress(paramsStore[height].validators)


(***************************************************************************)
(* Claims about the DPoS module's use of setBFTParameters                  *)
(***************************************************************************)

\* C36: at the end of a round after the init rounds, afterBlockExecute calls
\* setBFTParameters exactly when the validator list derived from the snapshot
\* of two rounds ago differs from the validators of the parameters in force,
\* or the precommit or certificate threshold in force differs from the
\* configured bftThreshold; when nothing differs no parameter entry is written.
ParametersDiffer(ret) ==
    \/ ret.current.value.validators # ret.bftWeights
    \/ ret.current.value.precommitThreshold # ret.bftThreshold
    \/ ret.current.value.certificateThreshold # ret.bftThreshold

C36_SetOnlyOnChange ==
    (bftRet.op = "afterBlockExecute" /\ bftRet.current.found) =>
        (bftRet.called <=> ParametersDiffer(bftRet))


(***************************************************************************)
(* Claims about the IPC channel                                            *)
(***************************************************************************)

\* C37: every invoke of an action of another module eventually settles: it
\* resolves with the response carrying its request id, or rejects when the
\* request times out or the send fails; no invoke stays pending forever.
C37_InvokeSettles ==
    \A id \in RequestIds :
        (id \in DOMAIN invocations) ~> (id \in DOMAIN invocations /\ invocations[id].promise # "pending")

\* C38: after subscribe(eventName, cb) followed by unsubscribe(eventName, cb),
\* cb is not invoked for any event received afterwards, also while other
\* callbacks remain subscribed to the same event: the callbacks an event
\* schedules are callbacks held subscribed to it.
C38_UnsubscribedNotInvoked ==
    \A i \in 1..Len(notified.callbacks) :
        <<notified.eventName, notified.callbacks[i]>> \in subscribed


(***************************************************************************)
(* Claims about the controller and the cache                               *)
(***************************************************************************)

\* C39: of the three outcomes of an unload (finished event, error event,
\* timeout) exactly one takes effect: once the plugin's entry is removed, no
\* callback firing later accesses or kills the removed entry or raises an error.
C39_OneUnloadOutcome == \A name \in PluginNames : unloading[name].raised = "none"

\* C40: the connection-error handler, which quits the client, runs only when
\* the error event occurs before the ready event: once ready has been handled
\* (cacheReady = true) an error event is only logged and quit is never called.
C40_NoQuitAfterReady ==
    cacheReady => \A i \in 1..Len(logged) :
        logged[i] \notin {"App was unable to connect to Cache server", "Cache - Quit database"}

====
